---- MODULE Spec2Model ----
(***************************************************************************)
(* Model of oggopus-embedded: the Ogg page parser, the page walker, the    *)
(* packet reassembler Packets<N>, the Opus ID header parser and the reader *)
(* typestate machine Beginning -> InStream -> EndOfStream.                 *)
(*                                                                         *)
(* The input is kept at page granularity: the bitstream is a sequence of   *)
(* complete pages (capture pattern present, lace table and body whole),    *)
(* each a record of the header fields the code reads.  A page body is not  *)
(* stored byte by byte in the input; PageData expands it where the code    *)
(* reads page.data.                                                        *)
(*                                                                         *)
(* Spec runs the reader over whole streams; SpecContainer calls the        *)
(* functions of the container layer on single page groups.  SpecPage and   *)
(* SpecOpus work on bytes: SpecPage parses one encoded page and walks its  *)
(* lace table, SpecOpus parses one ID header packet and asks the returned  *)
(* channel mapping for its channels.  SpecBytes hands encoded pages and ID *)
(* headers to the parsers at the start of the input and behind a parsed    *)
(* page and promotes their errors.  SpecLive is Spec with the decode loop  *)
(* that keeps calling next_packets.  SpecOverflow runs the page walk and   *)
(* the reader on sequence numbers next to 2^32 - 1, in a build with        *)
(* overflow checks and in one without.                                     *)
(***************************************************************************)
EXTENDS Integers, Sequences, FiniteSets, TLC

VARIABLES
    bitstream,  \* Bitstream.data: the whole input, fixed at construction
    state,      \* typestate of the reader the driver holds
    remaining,  \* BitstreamReader.remaining
    marker,     \* BitstreamReader.marker (fields of InStream)
    result,     \* outcome of the last operation
    packets,    \* the Packets value returned by the last next_packets
    prev,       \* history: the reader the last operation was called on
    consumed,   \* history: pages consumed so far in the current logical stream
    call,       \* outcome of the last call made on a single function
    delivered   \* history: the items the iterator in use has returned so far

vars ==
    <<bitstream, state, remaining, marker, result, packets, prev, consumed,
      call, delivered>>

---------------------------------------------------------------------------
(* Bounds of the explored input.                                           *)

MaxPages == 4
MaxSeq == 3
MaxLace == 3
MaxMapped == 9
Serials == {1, 2}
BufferSizes == {64, 512}

(* Program constants.                                                      *)

ContinuedLace == 255
EndOfStreamFlag == 4
HeaderBufferSize == 20
MaxOpusVersion == 15
Family1MaxChannels == 8
Family255MaxChannels == 255

OpusHeadTag == <<79, 112, 117, 115, 72, 101, 97, 100>>

---------------------------------------------------------------------------
(* Generic helpers.                                                        *)

Max(a, b) == IF a >= b THEN a ELSE b

RECURSIVE SumSeq(_)
SumSeq(s) == IF s = <<>> THEN 0 ELSE Head(s) + SumSeq(Tail(s))

Drop(s, n) == SubSeq(s, n + 1, Len(s))

Take(s, n) == SubSeq(s, 1, n)

(* A let binding: value is computed once and Body is applied to it.        *)
Bind(value, Body(_)) == CHOOSE out \in { Body(v) : v \in {value} } : TRUE

---------------------------------------------------------------------------
(* Error values.  Every error is a record of the same shape.               *)

Err(kind, a, b, msg) == [kind |-> kind, a |-> a, b |-> b, msg |-> msg]

NoError == Err("None", 0, 0, "")

Panic(msg) == Err("Panic", 0, 0, msg)

SerialChangedMsg == "bitstream serial number changed unexpectedly"

(* BitstreamError::OggError(error) and BitstreamError::OpusError(error):   *)
(* the variant, and every part of the error it holds.                      *)
Wrapped(variant, e) ==
    [kind |-> variant, a |-> e.a, b |-> e.b, msg |-> e.kind, inner |-> e.msg]

(* impl From<OggError> for BitstreamError; an abort is no error value and  *)
(* passes through.                                                         *)
FromOggError(e) ==
    IF e.kind = "Ogg.UnsupportedStream"
    THEN Err("UnsupportedStream", 0, 0, e.msg)
    ELSE IF e.kind = "Panic" THEN e
    ELSE Wrapped("OggError", e)

(* impl From<OpusError> for BitstreamError *)
FromOpusError(e) ==
    IF e.kind = "Panic" THEN e ELSE Wrapped("OpusError", e)

---------------------------------------------------------------------------
(* Pages.                                                                  *)

(* The ID header packet of a family 0 stream: "OpusHead", version,         *)
(* channel count, pre-skip, input sample rate, output gain, family.        *)
OpusHeadBytes(version, channels, family) ==
    OpusHeadTag \o <<version, channels, 56, 1, 128, 62, 0, 0, 0, 0, family>>

(* Page.data: the body, whose length is the sum of the lace bytes.  The    *)
(* body starts with an ID header of version page.opus_version; the bytes   *)
(* behind it differ from one position to the next and from one page to the *)
(* next.                                                                   *)
PageData(page) ==
    LET head == OpusHeadBytes(page.opus_version, 1, 0)
    IN  [i \in 1..SumSeq(page.segment_table) |->
            IF i <= Len(head) THEN head[i]
            ELSE (i + 64 * page.page_sequence_number) % 256]

(* HeaderFlags::contains(EndOfStream) *)
HasEndOfStreamFlag(page) == (page.header_type \div EndOfStreamFlag) % 2 = 1

(* LastPacketContinues that looks at the first lace value.                 *)
LastPacketContinuesAtFirst(page) == page.segment_table[1] = ContinuedLace

(* Page::last_packet_continues; the caller checks the table is not empty.  *)
LastPacketContinues(page) ==
    page.segment_table[Len(page.segment_table)] = ContinuedLace

ParseOk(rem, page) ==
    [ok |-> TRUE, err |-> NoError, remaining |-> rem, page |-> page]

ParseErr(e) ==
    [ok |-> FALSE, err |-> e, remaining |-> <<>>, page |-> <<>>]

(* PageParse that accepts every version.                                   *)
PageParseAnyVersion(input) ==
    IF input = <<>> THEN ParseErr(Err("Ogg.NotOggStream", 0, 0, ""))
    ELSE ParseOk(Tail(input), Head(input))

(* Page::parse on page-granular input: the capture pattern of an empty     *)
(* input does not match, a non-zero version is rejected.                   *)
PageParse(input) ==
    IF input = <<>> THEN ParseErr(Err("Ogg.NotOggStream", 0, 0, ""))
    ELSE IF Head(input).version # 0
    THEN ParseErr(Err("Ogg.UnsupportedVersion", Head(input).version, 0, ""))
    ELSE ParseOk(Tail(input), Head(input))

(* The fold of Page::max_segment_size over the lace table.                 *)
RECURSIVE FoldSegments(_, _, _)
FoldSegments(table, all_max, current_max) ==
    IF table = <<>> THEN <<all_max, current_max>>
    ELSE LET cur == current_max + Head(table)
         IN  IF Head(table) < ContinuedLace
             THEN FoldSegments(Tail(table), Max(all_max, cur), 0)
             ELSE FoldSegments(Tail(table), all_max, cur)

(* MaxSegmentSize that starts every page with an empty packet.             *)
MaxSegmentSizePerPage(page, old_max, accumulated) ==
    Bind(FoldSegments(page.segment_table, old_max, 0), LAMBDA f :
        IF LastPacketContinues(page)
        THEN <<Max(f[1], f[2]), f[2]>>
        ELSE <<Max(f[1], f[2]), 0>>)

(* Page::max_segment_size *)
MaxSegmentSize(page, old_max, accumulated) ==
    Bind(FoldSegments(page.segment_table, old_max, accumulated), LAMBDA f :
        IF LastPacketContinues(page)
        THEN <<Max(f[1], f[2]), f[2]>>
        ELSE <<Max(f[1], f[2]), 0>>)

(* SkipLoop that does not compare sequence numbers.                        *)
RECURSIVE SkipLoopAnySequence(_, _, _, _)
SkipLoopAnySequence(rem, page, page_sequence_number, bitstream_serial_number) ==
    IF page.segment_table = <<>>
    THEN ParseErr(Panic("unwrap on empty segment table"))
    ELSE IF ~LastPacketContinues(page) THEN ParseOk(rem, page)
    ELSE Bind(PageParse(rem), LAMBDA r :
             IF ~r.ok THEN r
             ELSE IF r.page.bitstream_serial_number # bitstream_serial_number
             THEN ParseErr(Err("Ogg.UnsupportedStream", 0, 0, SerialChangedMsg))
             ELSE SkipLoopAnySequence(r.remaining, r.page,
                                      r.page.page_sequence_number,
                                      bitstream_serial_number))

(* The loop of Page::skip.                                                 *)
RECURSIVE SkipLoop(_, _, _, _)
SkipLoop(rem, page, page_sequence_number, bitstream_serial_number) ==
    IF page.segment_table = <<>>
    THEN ParseErr(Panic("unwrap on empty segment table"))
    ELSE IF ~LastPacketContinues(page) THEN ParseOk(rem, page)
    ELSE Bind(PageParse(rem), LAMBDA r :
             IF ~r.ok THEN r
             ELSE IF r.page.page_sequence_number # page_sequence_number + 1
             THEN ParseErr(Err("Ogg.InvalidStream", page_sequence_number,
                               r.page.page_sequence_number,
                               "SequenceNumberMismatch"))
             ELSE IF r.page.bitstream_serial_number # bitstream_serial_number
             THEN ParseErr(Err("Ogg.UnsupportedStream", 0, 0, SerialChangedMsg))
             ELSE SkipLoop(r.remaining, r.page, r.page.page_sequence_number,
                           bitstream_serial_number))

(* PageSkip that stops behind the first page.                              *)
PageSkipOnePage(data) == PageParse(data)

(* Page::skip *)
PageSkip(data) ==
    Bind(PageParse(data), LAMBDA r :
        IF ~r.ok THEN r
        ELSE SkipLoop(r.remaining, r.page, r.page.page_sequence_number,
                      r.page.bitstream_serial_number))

---------------------------------------------------------------------------
(* Segment table iterator.                                                 *)

(* PageHeader::iter_segment_table *)
IterSegmentTable(page) == [table |-> page.segment_table, cumulated |-> 0]

(* LeadingContinued that stops behind the first lace byte.                 *)
LeadingContinuedOnce(table) ==
    IF table = <<>> \/ Head(table) # ContinuedLace THEN 0 ELSE 1

(* Number of leading lace bytes equal to 255.                              *)
RECURSIVE LeadingContinued(_)
LeadingContinued(table) ==
    IF table = <<>> \/ Head(table) # ContinuedLace THEN 0
    ELSE 1 + LeadingContinued(Tail(table))

(* SegmentsNext that places every segment at the start of the page body.   *)
SegmentsNextFromStart(it) ==
    IF it.table = <<>>
    THEN [some |-> FALSE, before |-> 0, size |-> 0, complete |-> FALSE, it |-> it]
    ELSE Bind(LeadingContinued(it.table), LAMBDA index :
             LET full == index < Len(it.table)
                 size == ContinuedLace * index
                         + (IF full THEN it.table[index + 1] ELSE 0)
             IN  [some |-> TRUE, before |-> 0, size |-> size,
                  complete |-> full,
                  it |-> [table |-> IF full THEN Drop(it.table, index + 1)
                                    ELSE <<>>,
                          cumulated |-> it.cumulated + size]])

(* SegmentTableIterator::next: the item (some = FALSE for None) and the    *)
(* iterator after the call.                                                *)
SegmentsNext(it) ==
    IF it.table = <<>>
    THEN [some |-> FALSE, before |-> 0, size |-> 0, complete |-> FALSE, it |-> it]
    ELSE Bind(LeadingContinued(it.table), LAMBDA index :
             LET full == index < Len(it.table)
                 size == ContinuedLace * index
                         + (IF full THEN it.table[index + 1] ELSE 0)
             IN  [some |-> TRUE, before |-> it.cumulated, size |-> size,
                  complete |-> full,
                  it |-> [table |-> IF full THEN Drop(it.table, index + 1)
                                    ELSE <<>>,
                          cumulated |-> it.cumulated + size]])

---------------------------------------------------------------------------
(* Pages as bytes: PageHeader::parse and Page::parse on the bytes of the   *)
(* input.                                                                  *)

OggSTag == <<79, 103, 103, 83>>

(* Value of a little-endian field.                                         *)
RECURSIVE LeValue(_)
LeValue(bytes) ==
    IF bytes = <<>> THEN 0 ELSE Head(bytes) + 256 * LeValue(Tail(bytes))

(* The bytes of a little-endian field of the given width.                  *)
RECURSIVE LeBytes(_, _)
LeBytes(n, width) ==
    IF width = 0 THEN <<>> ELSE <<n % 256>> \o LeBytes(n \div 256, width - 1)

(* nom::Err::Incomplete(Needed::Size(n)) and ErrorKind::Eof, converted.    *)
OggNeeded(n) == Err("Ogg.EndOfStreamError", n, 0, "Some")

OggEof == Err("Ogg.EndOfStreamError", 0, 0, "None")

NoPageHeader ==
    [version |-> 0, header_type |-> 0, granule_position |-> 0,
     bitstream_serial_number |-> 0, page_sequence_number |-> 0,
     segment_table |-> <<>>]

BytesOk(rem, header, data) ==
    [ok |-> TRUE, err |-> NoError, remaining |-> rem, header |-> header,
     data |-> data]

BytesErr(e) ==
    [ok |-> FALSE, err |-> e, remaining |-> <<>>, header |-> NoPageHeader,
     data |-> <<>>]

(* The fixed-width reads of PageHeader::parse behind the capture pattern:  *)
(* the error of the first read that finds too few bytes, or NoError.       *)
HeaderFieldsError(len) ==
    IF len < 5 THEN OggNeeded(1)
    ELSE IF len < 6 THEN OggNeeded(1)
    ELSE IF len < 14 THEN OggNeeded(14 - len)
    ELSE IF len < 18 THEN OggNeeded(18 - len)
    ELSE IF len < 22 THEN OggNeeded(22 - len)
    ELSE IF len < 26 THEN OggNeeded(26 - len)
    ELSE IF len < 27 THEN OggNeeded(1)
    ELSE NoError

(* PageHeader::parse *)
PageHeaderParse(input) ==
    IF Len(input) < 4 \/ Take(input, 4) # OggSTag
    THEN BytesErr(Err("Ogg.NotOggStream", 0, 0, ""))
    ELSE IF HeaderFieldsError(Len(input)) # NoError
    THEN BytesErr(HeaderFieldsError(Len(input)))
    ELSE IF Len(input) - 27 < input[27] THEN BytesErr(OggEof)
    ELSE BytesOk(Drop(input, 27 + input[27]),
                 [version |-> input[5], header_type |-> input[6],
                  granule_position |-> LeValue(SubSeq(input, 7, 14)),
                  bitstream_serial_number |-> LeValue(SubSeq(input, 15, 18)),
                  page_sequence_number |-> LeValue(SubSeq(input, 19, 22)),
                  segment_table |-> SubSeq(input, 28, 27 + input[27])],
                 <<>>)

(* PageParseBytes that takes the body up to the end of the input.          *)
PageParseBytesToEnd(input) ==
    Bind(PageHeaderParse(input), LAMBDA h :
        IF ~h.ok THEN h
        ELSE IF h.header.version # 0
        THEN BytesErr(Err("Ogg.UnsupportedVersion", h.header.version, 0, ""))
        ELSE BytesOk(<<>>, h.header, h.remaining))

(* Page::parse *)
PageParseBytes(input) ==
    Bind(PageHeaderParse(input), LAMBDA h :
        IF ~h.ok THEN h
        ELSE IF h.header.version # 0
        THEN BytesErr(Err("Ogg.UnsupportedVersion", h.header.version, 0, ""))
        ELSE IF Len(h.remaining) < SumSeq(h.header.segment_table)
        THEN BytesErr(OggEof)
        ELSE BytesOk(Drop(h.remaining, SumSeq(h.header.segment_table)),
                     h.header,
                     Take(h.remaining, SumSeq(h.header.segment_table))))

(* PageHeader::iter_segment_table; the unwrap fails on a header that does  *)
(* not parse.                                                              *)
IterSegmentTableBytes(data) ==
    Bind(PageHeaderParse(data), LAMBDA h :
        IF ~h.ok THEN [ok |-> FALSE, it |-> [table |-> <<>>, cumulated |-> 0]]
        ELSE [ok |-> TRUE,
              it |-> [table |-> h.header.segment_table, cumulated |-> 0]])

---------------------------------------------------------------------------
(* Packets<BUFFER_SIZE>.                                                   *)

NoPage ==
    [version |-> 0, header_type |-> 0, bitstream_serial_number |-> 0,
     page_sequence_number |-> 0, segment_table |-> <<>>, opus_version |-> 0]

NoPackets ==
    [data |-> <<>>, page |-> NoPage, segments |-> [table |-> <<>>, cumulated |-> 0],
     buffer_size |-> 0]

PacketsOk(rem, pk) ==
    [ok |-> TRUE, err |-> NoError, remaining |-> rem, packets |-> pk]

PacketsErr(e) ==
    [ok |-> FALSE, err |-> e, remaining |-> <<>>, packets |-> NoPackets]

(* ParseLoop that does not compare serial numbers.                         *)
RECURSIVE ParseLoopAnySerial(_, _, _, _, _, _)
ParseLoopAnySerial(rem, page, max_segment, acc, page_sequence_number, bitstream_serial_number) ==
    IF ~LastPacketContinues(page)
    THEN [ok |-> TRUE, err |-> NoError, remaining |-> rem, max |-> max_segment]
    ELSE Bind(PageParse(rem), LAMBDA r :
             IF ~r.ok THEN [ok |-> FALSE, err |-> r.err, remaining |-> <<>>, max |-> 0]
             ELSE Bind(MaxSegmentSize(r.page, max_segment, acc), LAMBDA m :
                      IF r.page.page_sequence_number # page_sequence_number + 1
                      THEN [ok |-> FALSE,
                            err |-> Err("Ogg.InvalidStream", page_sequence_number,
                                        r.page.page_sequence_number,
                                        "SequenceNumberMismatch"),
                            remaining |-> <<>>, max |-> 0]
                      ELSE ParseLoopAnySerial(r.remaining, r.page, m[1], m[2],
                                              r.page.page_sequence_number,
                                              bitstream_serial_number)))

(* ParseLoop that reports the sequence number it expected.                 *)
RECURSIVE ParseLoopExpected(_, _, _, _, _, _)
ParseLoopExpected(rem, page, max_segment, acc, page_sequence_number, bitstream_serial_number) ==
    IF ~LastPacketContinues(page)
    THEN [ok |-> TRUE, err |-> NoError, remaining |-> rem, max |-> max_segment]
    ELSE Bind(PageParse(rem), LAMBDA r :
             IF ~r.ok THEN [ok |-> FALSE, err |-> r.err, remaining |-> <<>>, max |-> 0]
             ELSE Bind(MaxSegmentSize(r.page, max_segment, acc), LAMBDA m :
                      IF r.page.page_sequence_number # page_sequence_number + 1
                      THEN [ok |-> FALSE,
                            err |-> Err("Ogg.InvalidStream",
                                        page_sequence_number + 1,
                                        r.page.page_sequence_number,
                                        "SequenceNumberMismatch"),
                            remaining |-> <<>>, max |-> 0]
                      ELSE IF r.page.bitstream_serial_number
                              # bitstream_serial_number
                      THEN [ok |-> FALSE,
                            err |-> Err("Ogg.UnsupportedStream", 0, 0,
                                        SerialChangedMsg),
                            remaining |-> <<>>, max |-> 0]
                      ELSE ParseLoopExpected(r.remaining, r.page, m[1], m[2],
                                             r.page.page_sequence_number,
                                             bitstream_serial_number)))

(* The loop of Packets::parse: walks to the page that ends at a packet     *)
(* boundary and returns <<remaining, max_segment>> or an error.            *)
RECURSIVE ParseLoop(_, _, _, _, _, _)
ParseLoop(rem, page, max_segment, acc, page_sequence_number, bitstream_serial_number) ==
    IF ~LastPacketContinues(page)
    THEN [ok |-> TRUE, err |-> NoError, remaining |-> rem, max |-> max_segment]
    ELSE Bind(PageParse(rem), LAMBDA r :
             IF ~r.ok THEN [ok |-> FALSE, err |-> r.err, remaining |-> <<>>, max |-> 0]
             ELSE IF r.page.segment_table = <<>>
             THEN [ok |-> FALSE, err |-> Panic("unwrap on empty segment table"),
                   remaining |-> <<>>, max |-> 0]
             ELSE Bind(MaxSegmentSize(r.page, max_segment, acc), LAMBDA m :
                      IF r.page.page_sequence_number # page_sequence_number + 1
                      THEN [ok |-> FALSE,
                            err |-> Err("Ogg.InvalidStream", page_sequence_number,
                                        r.page.page_sequence_number,
                                        "SequenceNumberMismatch"),
                            remaining |-> <<>>, max |-> 0]
                      ELSE IF r.page.bitstream_serial_number
                              # bitstream_serial_number
                      THEN [ok |-> FALSE,
                            err |-> Err("Ogg.UnsupportedStream", 0, 0,
                                        SerialChangedMsg),
                            remaining |-> <<>>, max |-> 0]
                      ELSE ParseLoop(r.remaining, r.page, m[1], m[2],
                                     r.page.page_sequence_number,
                                     bitstream_serial_number)))

(* PacketsParse without the comparison of max_segment with BUFFER_SIZE.    *)
PacketsParseAnySize(data, BUFFER_SIZE) ==
    Bind(PageParse(data), LAMBDA r :
        IF ~r.ok THEN PacketsErr(r.err)
        ELSE IF r.page.segment_table = <<>>
        THEN PacketsErr(Panic("unwrap on empty segment table"))
        ELSE
        Bind(ParseLoop(r.remaining, r.page, 0, 0, r.page.page_sequence_number,
                       r.page.bitstream_serial_number), LAMBDA w :
            IF ~w.ok THEN PacketsErr(w.err)
            ELSE PacketsOk(w.remaining,
                    [data |-> Take(r.remaining,
                                   Len(r.remaining) - Len(w.remaining)),
                     page |-> r.page,
                     segments |-> IterSegmentTable(r.page),
                     buffer_size |-> BUFFER_SIZE])))

(* Packets::<BUFFER_SIZE>::parse *)
PacketsParse(data, BUFFER_SIZE) ==
    Bind(PageParse(data), LAMBDA r :
        IF ~r.ok THEN PacketsErr(r.err)
        ELSE IF r.page.segment_table = <<>>
        THEN PacketsErr(Panic("unwrap on empty segment table"))
        ELSE
        Bind(MaxSegmentSize(r.page, 0, 0), LAMBDA m :
        Bind(ParseLoop(r.remaining, r.page, m[1], m[2],
                       r.page.page_sequence_number,
                       r.page.bitstream_serial_number), LAMBDA w :
            IF ~w.ok THEN PacketsErr(w.err)
            ELSE IF w.max > BUFFER_SIZE
            THEN PacketsErr(Err("Ogg.BufferTooSmallError", BUFFER_SIZE, w.max, ""))
            ELSE LET next_data == r.remaining
                 IN  PacketsOk(w.remaining,
                        [data |-> Take(next_data,
                                       Len(next_data) - Len(w.remaining)),
                         page |-> r.page,
                         segments |-> IterSegmentTable(r.page),
                         buffer_size |-> BUFFER_SIZE]))))

(* Packets::current_page_sequence_number *)
CurrentPageSequenceNumber(pk) == pk.page.page_sequence_number

(* What last_page_sequence_number returns: a number, or a failed unwrap.   *)
SequenceNumber(number) == [ok |-> TRUE, number |-> number]

FailedUnwrap == [ok |-> FALSE, number |-> 0]

(* The loop of Packets::last_page_sequence_number over the bounded view.   *)
RECURSIVE LastPageLoop(_)
LastPageLoop(data) ==
    Bind(PageParse(data), LAMBDA r :
        IF ~r.ok \/ r.page.segment_table = <<>> THEN FailedUnwrap
        ELSE IF LastPacketContinues(r.page) THEN LastPageLoop(r.remaining)
        ELSE SequenceNumber(r.page.page_sequence_number))

(* LastPageSequenceNumber that stays on the current page.                  *)
LastPageSequenceNumberOfCurrent(pk) ==
    SequenceNumber(CurrentPageSequenceNumber(pk))

(* Packets::last_page_sequence_number *)
LastPageSequenceNumber(pk) ==
    IF pk.data = <<>> THEN SequenceNumber(CurrentPageSequenceNumber(pk))
    ELSE LastPageLoop(pk.data)

(* Packets::bitstream_serial_number *)
BitstreamSerialNumber(pk) == pk.page.bitstream_serial_number

(* Packets::end_of_stream *)
EndOfStream(pk) == HasEndOfStreamFlag(pk.page)

NextSome(pk, buf) == [kind |-> "Some", data |-> buf, packets |-> pk, msg |-> ""]

(* NextNone that hands the segment table of the page to the iterator again. *)
NextNoneRewound(pk) ==
    [kind |-> "None", data |-> <<>>,
     packets |-> [pk EXCEPT !.segments = IterSegmentTable(pk.page)], msg |-> ""]

NextNone(pk) == [kind |-> "None", data |-> <<>>, packets |-> pk, msg |-> ""]

NextPanic(pk, msg) == [kind |-> "Panic", data |-> <<>>, packets |-> pk, msg |-> msg]

(* The loop of Packets::next; buf holds buffer[0..buf].  A slice that      *)
(* leaves the buffer or the page body, a failed unwrap and a failed        *)
(* assertion all abort the call.                                           *)
RECURSIVE NextLoop(_, _)
NextLoop(pk, buf) ==
    Bind(SegmentsNext(pk.segments), LAMBDA seg :
        IF seg.some
        THEN IF Len(buf) + seg.size > pk.buffer_size
             THEN NextPanic(pk, "range end out of bounds for buffer")
             ELSE IF seg.before + seg.size > Len(PageData(pk.page))
             THEN NextPanic(pk, "range end out of bounds for page data")
             ELSE LET buf2 == buf \o SubSeq(PageData(pk.page), seg.before + 1,
                                            seg.before + seg.size)
                      pk2 == [pk EXCEPT !.segments = seg.it]
                  IN  IF seg.complete THEN NextSome(pk2, buf2)
                      ELSE NextLoop(pk2, buf2)
        ELSE IF pk.page.segment_table = <<>>
        THEN NextPanic(pk, "unwrap on empty segment table")
        ELSE IF LastPacketContinues(pk.page)
        THEN IF pk.data = <<>> THEN NextPanic(pk, "assert !data.is_empty()")
             ELSE Bind(PageParse(pk.data), LAMBDA r :
                      IF ~r.ok THEN NextPanic(pk, "unwrap on parse error")
                      ELSE IF r.page.segment_table = <<>>
                      THEN NextPanic(pk, "unwrap on empty segment table")
                      ELSE IF LastPacketContinues(r.page) = (r.remaining = <<>>)
                      THEN NextPanic(pk, "assert on bounded view")
                      ELSE NextLoop([pk EXCEPT !.segments = IterSegmentTable(r.page),
                                               !.data = r.remaining,
                                               !.page = r.page], buf))
        ELSE IF pk.data # <<>> THEN NextPanic(pk, "assert data.is_empty()")
        ELSE NextNone(pk))

(* PacketsNext that ends the iteration behind the first packet.            *)
PacketsNextOnce(pk) ==
    IF pk.segments.table # pk.page.segment_table THEN NextNone(pk)
    ELSE NextLoop(pk, <<>>)

(* Packets::next *)
PacketsNext(pk) == NextLoop(pk, <<>>)

---------------------------------------------------------------------------
(* Opus identification header.                                             *)

NoTable == [stream_count |-> 0, coupled_count |-> 0, mapping |-> <<>>]

NoHeader ==
    [version |-> 0, family |-> "None", channels |-> 0, table |-> NoTable,
     pre_skip |-> 0, sample_rate |-> 0, output_gain |-> 0]

HeaderOk(h) == [ok |-> TRUE, err |-> NoError, header |-> h]

HeaderErr(e) == [ok |-> FALSE, err |-> e, header |-> NoHeader]

(* A fixed-width read that finds too few bytes reports how many are        *)
(* missing.                                                                *)
Needed(input, width) ==
    Err("Opus.EndOfStreamError", width - Len(input), 0, "")

(* InvalidIndexes that lets the total stream count pass as an index.       *)
InvalidIndexesAbove(mapping, total_stream_count) ==
    { i \in 1..Len(mapping) :
        mapping[i] > total_stream_count /\ mapping[i] # 255 }

(* Positions of the mapping bytes that the loop of the table parser        *)
(* refuses.                                                                *)
InvalidIndexes(mapping, total_stream_count) ==
    { i \in 1..Len(mapping) :
        mapping[i] >= total_stream_count /\ mapping[i] # 255 }

(* FirstInvalidIndex that looks at the first mapping byte only.            *)
FirstInvalidIndexHead(mapping, total_stream_count) ==
    IF mapping = <<>> THEN -1
    ELSE IF Head(mapping) >= total_stream_count /\ Head(mapping) # 255
    THEN Head(mapping)
    ELSE -1

(* First mapping byte that is neither 255 nor a valid stream index, or -1. *)
FirstInvalidIndex(mapping, total_stream_count) ==
    IF InvalidIndexes(mapping, total_stream_count) = {} THEN -1
    ELSE mapping[CHOOSE i \in InvalidIndexes(mapping, total_stream_count) :
                    \A j \in InvalidIndexes(mapping, total_stream_count) : i <= j]

TableOk(t) == [ok |-> TRUE, err |-> NoError, table |-> t]

TableErr(e) == [ok |-> FALSE, err |-> e, table |-> NoTable]

(* ChannelMappingTable::parse that compares the table length with the      *)
(* channel count before it looks at the stream counts.                     *)
ChannelMappingTableParseLengthFirst(input, channels, MAX_CHANNELS) ==
    IF Len(input) < 1 THEN TableErr(Needed(input, 1))
    ELSE IF Len(input) < 2 THEN TableErr(Needed(Tail(input), 1))
    ELSE
    LET stream_count == input[1]
        coupled_count == input[2]
        rest == Drop(input, 2)
        total == stream_count + coupled_count
    IN  IF Len(rest) # channels
        THEN TableErr(Err("Opus.InvalidStream", Len(rest), channels,
                          "BadTableLength"))
        ELSE IF total > 255
        THEN TableErr(Err("Opus.InvalidStream", total, 0, "TotalStreamCountExceeds"))
        ELSE IF stream_count = 0
        THEN TableErr(Err("Opus.InvalidStream", 0, 0, "ZeroStreamCount"))
        ELSE IF coupled_count > stream_count
        THEN TableErr(Err("Opus.InvalidStream", coupled_count, stream_count,
                          "StreamCountsMismatch"))
        ELSE IF Len(rest) > MAX_CHANNELS
        THEN TableErr(Err("Opus.InvalidStream", Len(rest), MAX_CHANNELS % 256,
                          "TableTooBig"))
        ELSE IF FirstInvalidIndex(rest, total) # -1
        THEN TableErr(Err("Opus.InvalidStream", FirstInvalidIndex(rest, total), 0,
                          "InvalidChannelIndex"))
        ELSE TableOk([stream_count |-> stream_count,
                      coupled_count |-> coupled_count,
                      mapping |-> rest])

(* ChannelMappingTable::<MAX_CHANNELS>::parse *)
ChannelMappingTableParse(input, channels, MAX_CHANNELS) ==
    IF Len(input) < 1 THEN TableErr(Needed(input, 1))
    ELSE IF Len(input) < 2 THEN TableErr(Needed(Tail(input), 1))
    ELSE
    LET stream_count == input[1]
        coupled_count == input[2]
        rest == Drop(input, 2)
        total == stream_count + coupled_count
    IN  IF total > 255
        THEN TableErr(Err("Opus.InvalidStream", total, 0, "TotalStreamCountExceeds"))
        ELSE IF stream_count = 0
        THEN TableErr(Err("Opus.InvalidStream", 0, 0, "ZeroStreamCount"))
        ELSE IF coupled_count > stream_count
        THEN TableErr(Err("Opus.InvalidStream", coupled_count, stream_count,
                          "StreamCountsMismatch"))
        ELSE IF Len(rest) # channels
        THEN TableErr(Err("Opus.InvalidStream", Len(rest), channels,
                          "BadTableLength"))
        ELSE IF Len(rest) > MAX_CHANNELS
        THEN TableErr(Err("Opus.InvalidStream", Len(rest), MAX_CHANNELS % 256,
                          "TableTooBig"))
        ELSE IF FirstInvalidIndex(rest, total) # -1
        THEN TableErr(Err("Opus.InvalidStream", FirstInvalidIndex(rest, total), 0,
                          "InvalidChannelIndex"))
        ELSE TableOk([stream_count |-> stream_count,
                      coupled_count |-> coupled_count,
                      mapping |-> rest])

MappingOk(family, table) ==
    [ok |-> TRUE, err |-> NoError, family |-> family, table |-> table]

MappingErr(e) == [ok |-> FALSE, err |-> e, family |-> "None", table |-> NoTable]

(* A family that carries a table: the table parsed by                      *)
(* ChannelMappingTable::<MAX_CHANNELS>::parse, or its error.               *)
WithTable(family, channels, channel_mapping_table, MAX_CHANNELS) ==
    Bind(ChannelMappingTableParse(channel_mapping_table, channels, MAX_CHANNELS),
         LAMBDA t : IF t.ok THEN MappingOk(family, t.table) ELSE MappingErr(t.err))

(* The match on channel_mapping_family in OpusHeader::parse that parses    *)
(* the table of family 1 before it looks at the channel count.             *)
ChannelMappingParseTableFirst(channel_mapping_family, channels, channel_mapping_table, family255) ==
    IF channel_mapping_family = 0
    THEN IF channels \in 1..2 THEN MappingOk("Family0", NoTable)
         ELSE MappingErr(Err("Opus.InvalidStream", 0, channels,
                             "BadNumberOfChannels"))
    ELSE IF channel_mapping_family = 1
    THEN Bind(WithTable("Family1", channels, channel_mapping_table,
                        Family1MaxChannels),
              LAMBDA m : IF m.ok /\ channels \notin 1..Family1MaxChannels
                         THEN MappingErr(Err("Opus.InvalidStream", 1, channels,
                                             "BadNumberOfChannels"))
                         ELSE m)
    ELSE IF ~family255
    THEN MappingErr(Err("Opus.UnsupportedStream", 0, 0,
                        "family 255 channel mapping is not supported"))
    ELSE IF channel_mapping_family = 255
    THEN WithTable("Family255", channels, channel_mapping_table,
                   Family255MaxChannels)
    ELSE WithTable("Reserved", channels, channel_mapping_table,
                   Family255MaxChannels)

(* The match on channel_mapping_family in OpusHeader::parse that, built    *)
(* without the feature, refuses family 255 alone.                          *)
ChannelMappingParseFamily255Only(channel_mapping_family, channels, channel_mapping_table, family255) ==
    IF channel_mapping_family = 0
    THEN IF channels \in 1..2 THEN MappingOk("Family0", NoTable)
         ELSE MappingErr(Err("Opus.InvalidStream", 0, channels,
                             "BadNumberOfChannels"))
    ELSE IF channel_mapping_family = 1
    THEN IF channels \in 1..Family1MaxChannels
         THEN WithTable("Family1", channels, channel_mapping_table,
                        Family1MaxChannels)
         ELSE MappingErr(Err("Opus.InvalidStream", 1, channels,
                             "BadNumberOfChannels"))
    ELSE IF channel_mapping_family = 255
    THEN IF family255
         THEN WithTable("Family255", channels, channel_mapping_table,
                        Family255MaxChannels)
         ELSE MappingErr(Err("Opus.UnsupportedStream", 0, 0,
                             "family 255 channel mapping is not supported"))
    ELSE WithTable("Reserved", channels, channel_mapping_table,
                   Family255MaxChannels)

(* The match on channel_mapping_family in OpusHeader::parse; family255 is  *)
(* the compile-time feature.                                               *)
ChannelMappingParse(channel_mapping_family, channels, channel_mapping_table, family255) ==
    IF channel_mapping_family = 0
    THEN IF channels \in 1..2 THEN MappingOk("Family0", NoTable)
         ELSE MappingErr(Err("Opus.InvalidStream", 0, channels,
                             "BadNumberOfChannels"))
    ELSE IF channel_mapping_family = 1
    THEN IF channels \in 1..Family1MaxChannels
         THEN WithTable("Family1", channels, channel_mapping_table,
                        Family1MaxChannels)
         ELSE MappingErr(Err("Opus.InvalidStream", 1, channels,
                             "BadNumberOfChannels"))
    ELSE IF ~family255
    THEN MappingErr(Err("Opus.UnsupportedStream", 0, 0,
                        "family 255 channel mapping is not supported"))
    ELSE IF channel_mapping_family = 255
    THEN WithTable("Family255", channels, channel_mapping_table,
                   Family255MaxChannels)
    ELSE WithTable("Reserved", channels, channel_mapping_table,
                   Family255MaxChannels)

(* OpusHeader::parse; family255 is the compile-time feature.               *)
OpusHeaderParse(input, family255) ==
    IF Len(input) < Len(OpusHeadTag) \/ Take(input, Len(OpusHeadTag)) # OpusHeadTag
    THEN HeaderErr(Err("Opus.NotOpusStream", 0, 0, ""))
    ELSE
    LET body == Drop(input, Len(OpusHeadTag))
    IN  IF Len(body) < 1 THEN HeaderErr(Needed(body, 1))
        ELSE IF Len(body) < 2 THEN HeaderErr(Needed(Drop(body, 1), 1))
        ELSE IF Len(body) < 4 THEN HeaderErr(Needed(Drop(body, 2), 2))
        ELSE IF Len(body) < 8 THEN HeaderErr(Needed(Drop(body, 4), 4))
        ELSE IF Len(body) < 10 THEN HeaderErr(Needed(Drop(body, 8), 2))
        ELSE IF Len(body) < 11 THEN HeaderErr(Needed(Drop(body, 10), 1))
        ELSE
        Bind(ChannelMappingParse(body[11], body[2], Drop(body, 11), family255),
             LAMBDA m :
                IF m.ok
                THEN HeaderOk([version |-> body[1],
                               family |-> m.family,
                               channels |-> body[2],
                               table |-> m.table,
                               pre_skip |-> body[3] + 256 * body[4],
                               sample_rate |-> body[5] + 256 * body[6]
                                               + 65536 * body[7]
                                               + 16777216 * body[8],
                               output_gain |-> body[9] + 256 * body[10]])
                ELSE HeaderErr(m.err))

(* Family1Speaker with the last two speakers of seven channels exchanged.  *)
Family1SpeakerLfeFirst(channels, channel) ==
    IF channels = 1 /\ channel = 0 THEN "Mono"
    ELSE IF channels \in 2..8 /\ channel = 0 THEN "Left"
    ELSE IF \/ <<channels, channel>> \in { <<2, 1>>, <<3, 2>>, <<4, 1>> }
            \/ channels \in 5..8 /\ channel = 2
    THEN "Right"
    ELSE IF <<channels, channel>> = <<3, 1>> \/ (channels \in 5..8 /\ channel = 1)
    THEN "Center"
    ELSE IF \/ <<channels, channel>> \in { <<4, 2>>, <<8, 5>> }
            \/ channels \in 5..6 /\ channel = 3
    THEN "RearLeft"
    ELSE IF \/ <<channels, channel>> \in { <<4, 3>>, <<8, 6>> }
            \/ channels \in 5..6 /\ channel = 4
    THEN "RearRight"
    ELSE IF <<channels, channel>> \in { <<6, 5>>, <<7, 5>>, <<8, 7>> } THEN "LFE"
    ELSE IF channels \in 7..8 /\ channel = 3 THEN "SideLeft"
    ELSE IF channels \in 7..8 /\ channel = 4 THEN "SideRight"
    ELSE IF <<channels, channel>> = <<7, 6>> THEN "RearCenter"
    ELSE "None"

(* The speaker location of the Family1 arm of get_mapping, "None" where    *)
(* no pattern matches.                                                     *)
Family1Speaker(channels, channel) ==
    IF channels = 1 /\ channel = 0 THEN "Mono"
    ELSE IF channels \in 2..8 /\ channel = 0 THEN "Left"
    ELSE IF \/ <<channels, channel>> \in { <<2, 1>>, <<3, 2>>, <<4, 1>> }
            \/ channels \in 5..8 /\ channel = 2
    THEN "Right"
    ELSE IF <<channels, channel>> = <<3, 1>> \/ (channels \in 5..8 /\ channel = 1)
    THEN "Center"
    ELSE IF \/ <<channels, channel>> \in { <<4, 2>>, <<8, 5>> }
            \/ channels \in 5..6 /\ channel = 3
    THEN "RearLeft"
    ELSE IF \/ <<channels, channel>> \in { <<4, 3>>, <<8, 6>> }
            \/ channels \in 5..6 /\ channel = 4
    THEN "RearRight"
    ELSE IF <<channels, channel>> \in { <<6, 5>>, <<7, 6>>, <<8, 7>> } THEN "LFE"
    ELSE IF channels \in 7..8 /\ channel = 3 THEN "SideLeft"
    ELSE IF channels \in 7..8 /\ channel = 4 THEN "SideRight"
    ELSE IF <<channels, channel>> = <<7, 5>> THEN "RearCenter"
    ELSE "None"

(* The speaker location of the Family0 arm of get_mapping.                 *)
Family0Speaker(channels, channel) ==
    IF <<channels, channel>> = <<1, 0>> THEN "Mono"
    ELSE IF <<channels, channel>> = <<2, 0>> THEN "Left"
    ELSE IF <<channels, channel>> = <<2, 1>> THEN "Right"
    ELSE "None"

(* mapping[usize::from(channel)] on the array of MAX_CHANNELS bytes, which *)
(* holds 0 behind the bytes parse has written; -1 for an index outside the *)
(* array.                                                                  *)
MappingAt(table, channel, MAX_CHANNELS) ==
    IF channel < Len(table.mapping) THEN table.mapping[channel + 1]
    ELSE IF channel < MAX_CHANNELS THEN 0
    ELSE -1

NoStream == [some |-> FALSE, index |-> 0, channel |-> "None"]

MappingNone == [kind |-> "None", stream |-> NoStream, speaker_location |-> "None"]

MappingPanic == [kind |-> "Panic", stream |-> NoStream, speaker_location |-> "None"]

(* StreamOf that takes every index for a mono stream.                      *)
StreamOfAllMono(speaker_location, index, coupled_count) ==
    IF index = -1 THEN MappingPanic
    ELSE IF index = 255
    THEN [kind |-> "Some", stream |-> NoStream,
          speaker_location |-> speaker_location]
    ELSE [kind |-> "Some",
          stream |-> [some |-> TRUE, index |-> index - coupled_count,
                      channel |-> "Mono"],
          speaker_location |-> speaker_location]

(* The second half of get_mapping: from the table entry to the stream.     *)
(* The arithmetic is that of u8: a product or a difference outside 0..255  *)
(* aborts the call.                                                        *)
StreamOf(speaker_location, index, coupled_count) ==
    IF index = -1 THEN MappingPanic
    ELSE IF index = 255
    THEN [kind |-> "Some", stream |-> NoStream,
          speaker_location |-> speaker_location]
    ELSE IF 2 * coupled_count > 255 THEN MappingPanic
    ELSE IF index < 2 * coupled_count
    THEN [kind |-> "Some",
          stream |-> [some |-> TRUE, index |-> index \div 2,
                      channel |-> IF index % 2 = 0 THEN "Left" ELSE "Right"],
          speaker_location |-> speaker_location]
    ELSE IF index - coupled_count < 0 THEN MappingPanic
    ELSE [kind |-> "Some",
          stream |-> [some |-> TRUE, index |-> index - coupled_count,
                      channel |-> "Mono"],
          speaker_location |-> speaker_location]

(* GetMapping that answers for every channel of families 255 and Reserved. *)
GetMappingAnyChannel(h, channel) ==
    IF h.family = "Family0"
    THEN IF Family0Speaker(h.channels, channel) = "None" THEN MappingNone
         ELSE StreamOf(Family0Speaker(h.channels, channel), channel,
                       h.channels - 1)
    ELSE IF h.family = "Family1"
    THEN IF Family1Speaker(h.channels, channel) = "None" THEN MappingNone
         ELSE StreamOf(Family1Speaker(h.channels, channel),
                       MappingAt(h.table, channel, Family1MaxChannels),
                       h.table.coupled_count)
    ELSE StreamOf("None", MappingAt(h.table, channel, Family255MaxChannels),
                  h.table.coupled_count)

(* ChannelMapping::get_mapping on the channels of a parsed header.         *)
GetMapping(h, channel) ==
    IF h.family = "Family0"
    THEN IF Family0Speaker(h.channels, channel) = "None" THEN MappingNone
         ELSE StreamOf(Family0Speaker(h.channels, channel), channel,
                       h.channels - 1)
    ELSE IF h.family = "Family1"
    THEN IF Family1Speaker(h.channels, channel) = "None" THEN MappingNone
         ELSE StreamOf(Family1Speaker(h.channels, channel),
                       MappingAt(h.table, channel, Family1MaxChannels),
                       h.table.coupled_count)
    ELSE IF channel >= h.channels THEN MappingNone
    ELSE StreamOf("None", MappingAt(h.table, channel, Family255MaxChannels),
                  h.table.coupled_count)

---------------------------------------------------------------------------
(* Reader typestate machine.                                               *)

Family255Feature == FALSE

NoMarker == [bitstream_serial_number |-> 0, page_sequence_number |-> 0]

(* states::InStream *)
InStream(serial, sequence) ==
    [bitstream_serial_number |-> serial, page_sequence_number |-> sequence]

ReaderErr(e) ==
    [ok |-> FALSE, err |-> e, either |-> "None", remaining |-> <<>>,
     marker |-> NoMarker, header |-> NoHeader, packets |-> NoPackets]

ReaderOk(either, rem, mk, header, pk) ==
    [ok |-> TRUE, err |-> NoError, either |-> either, remaining |-> rem,
     marker |-> mk, header |-> header, packets |-> pk]

(* SkipComments without the comparison of the serial numbers.              *)
SkipCommentsAnySerial(rem, bitstream_serial_number, header) ==
    Bind(PageSkip(rem), LAMBDA s :
        IF ~s.ok THEN ReaderErr(FromOggError(s.err))
        ELSE ReaderOk("Continued", s.remaining,
                      InStream(bitstream_serial_number,
                               s.page.page_sequence_number),
                      header, NoPackets))

(* The comment header part of read_header: walk the group, compare its     *)
(* serial number, build the InStream reader.                               *)
SkipComments(rem, bitstream_serial_number, header) ==
    Bind(PageSkip(rem), LAMBDA s :
        IF ~s.ok THEN ReaderErr(FromOggError(s.err))
        ELSE IF s.page.bitstream_serial_number # bitstream_serial_number
        THEN ReaderErr(Err("UnsupportedStream", 0, 0, SerialChangedMsg))
        ELSE ReaderOk("Continued", s.remaining,
                      InStream(bitstream_serial_number,
                               s.page.page_sequence_number),
                      header, NoPackets))

(* ReadIdHeader that does not ask for a second packet.                     *)
ReadIdHeaderAnyPackets(rem, pk, bitstream_serial_number) ==
    Bind(PacketsNext(pk), LAMBDA first :
        IF first.kind = "Panic" THEN ReaderErr(Panic(first.msg))
        ELSE IF first.kind = "None"
        THEN ReaderErr(Err("InvalidOpusStream", 0, 0, "missing header"))
        ELSE
        Bind(OpusHeaderParse(first.data, Family255Feature), LAMBDA h :
            IF ~h.ok THEN ReaderErr(FromOpusError(h.err))
            ELSE IF h.header.version > MaxOpusVersion
            THEN ReaderErr(Err("UnsupportedOpusVersion", h.header.version, 0, ""))
            ELSE SkipComments(rem, bitstream_serial_number, h.header)))

(* ReadIdHeader that rejects version 15 as well.                           *)
ReadIdHeaderBelow15(rem, pk, bitstream_serial_number) ==
    Bind(PacketsNext(pk), LAMBDA first :
        IF first.kind = "Panic" THEN ReaderErr(Panic(first.msg))
        ELSE IF first.kind = "None"
        THEN ReaderErr(Err("InvalidOpusStream", 0, 0, "missing header"))
        ELSE
        Bind(OpusHeaderParse(first.data, Family255Feature), LAMBDA h :
            IF ~h.ok THEN ReaderErr(FromOpusError(h.err))
            ELSE IF h.header.version >= MaxOpusVersion
            THEN ReaderErr(Err("UnsupportedOpusVersion", h.header.version, 0, ""))
            ELSE
            Bind(PacketsNext(first.packets), LAMBDA second :
                IF second.kind = "Panic" THEN ReaderErr(Panic(second.msg))
                ELSE IF second.kind = "Some"
                THEN ReaderErr(Err("InvalidOpusStream", 0, 0,
                                   "unexpected segment after header"))
                ELSE SkipComments(rem, bitstream_serial_number, h.header))))

(* The ID header part of read_header, from the first packet on.            *)
ReadIdHeader(rem, pk, bitstream_serial_number) ==
    Bind(PacketsNext(pk), LAMBDA first :
        IF first.kind = "Panic" THEN ReaderErr(Panic(first.msg))
        ELSE IF first.kind = "None"
        THEN ReaderErr(Err("InvalidOpusStream", 0, 0, "missing header"))
        ELSE
        Bind(OpusHeaderParse(first.data, Family255Feature), LAMBDA h :
            IF ~h.ok THEN ReaderErr(FromOpusError(h.err))
            ELSE IF h.header.version > MaxOpusVersion
            THEN ReaderErr(Err("UnsupportedOpusVersion", h.header.version, 0, ""))
            ELSE
            Bind(PacketsNext(first.packets), LAMBDA second :
                IF second.kind = "Panic" THEN ReaderErr(Panic(second.msg))
                ELSE IF second.kind = "Some"
                THEN ReaderErr(Err("InvalidOpusStream", 0, 0,
                                   "unexpected segment after header"))
                ELSE SkipComments(rem, bitstream_serial_number, h.header))))

(* ReadHeaderOp without the check of the first sequence number.            *)
ReadHeaderOpAnySequence(rem) ==
    Bind(PacketsParse(rem, HeaderBufferSize), LAMBDA p :
        IF ~p.ok THEN ReaderErr(FromOggError(p.err))
        ELSE ReadIdHeader(p.remaining, p.packets,
                          BitstreamSerialNumber(p.packets)))

(* BitstreamReader<Beginning>::read_header *)
ReadHeaderOp(rem) ==
    Bind(PacketsParse(rem, HeaderBufferSize), LAMBDA p :
        IF ~p.ok THEN ReaderErr(FromOggError(p.err))
        ELSE IF CurrentPageSequenceNumber(p.packets) # 0
        THEN ReaderErr(Err("InvalidOggStream", 0, 0,
                           "unexpected page sequence number in header"))
        ELSE ReadIdHeader(p.remaining, p.packets,
                          BitstreamSerialNumber(p.packets)))

(* CheckGroup without the comparison of the sequence numbers.              *)
CheckGroupAnySequence(mk, rem, pk) ==
    IF mk.bitstream_serial_number # BitstreamSerialNumber(pk)
    THEN ReaderErr(Err("UnsupportedStream", 0, 0, SerialChangedMsg))
    ELSE IF ~EndOfStream(pk)
    THEN Bind(LastPageSequenceNumber(pk), LAMBDA last :
             IF ~last.ok THEN ReaderErr(Panic("unwrap on parse error"))
             ELSE ReaderOk("Continued", rem,
                           InStream(mk.bitstream_serial_number, last.number),
                           NoHeader, pk))
    ELSE ReaderOk("Ended", rem, NoMarker, NoHeader, pk)

(* The state checks of next_packets on a parsed group.                     *)
CheckGroup(mk, rem, pk) ==
    IF mk.bitstream_serial_number # BitstreamSerialNumber(pk)
    THEN ReaderErr(Err("UnsupportedStream", 0, 0, SerialChangedMsg))
    ELSE IF CurrentPageSequenceNumber(pk) # mk.page_sequence_number + 1
    THEN ReaderErr(Err("InvalidOggStream", 0, 0,
                       "page sequence numbers are not sequential for data"))
    ELSE IF ~EndOfStream(pk)
    THEN Bind(LastPageSequenceNumber(pk), LAMBDA last :
             IF ~last.ok THEN ReaderErr(Panic("unwrap on parse error"))
             ELSE ReaderOk("Continued", rem,
                           InStream(mk.bitstream_serial_number, last.number),
                           NoHeader, pk))
    ELSE ReaderOk("Ended", rem, NoMarker, NoHeader, pk)

(* BitstreamReader<InStream>::next_packets::<BUFFER_SIZE> *)
NextPacketsOp(rem, mk, BUFFER_SIZE) ==
    Bind(PacketsParse(rem, BUFFER_SIZE), LAMBDA p :
        IF ~p.ok THEN ReaderErr(FromOggError(p.err))
        ELSE CheckGroup(mk, p.remaining, p.packets))

(* BitstreamReader<EndOfStream>::has_more *)
---------------------------------------------------------------------------
(* The successor of a sequence number in the two builds.                   *)
(*                                                                         *)
(* A sequence number is a u32.  The model writes it as the integer of the  *)
(* same 32 bits, so that 2^32 - 1 is -1 and 2^32 - 2 is -2; the code       *)
(* compares sequence numbers for equality and adds 1 to them, nothing      *)
(* else.  The + 1 of the operators above is then the addition of a build   *)
(* without overflow checks, which wraps from 2^32 - 1 to 0.  A build with  *)
(* overflow checks aborts instead; the operators below are that build.     *)

U32Max == -1

AddOverflow == Panic("attempt to add with overflow")

(* The loop of Page::skip, built with overflow checks.                     *)
RECURSIVE SkipLoopChecked(_, _, _, _)
SkipLoopChecked(rem, page, page_sequence_number, bitstream_serial_number) ==
    IF page.segment_table = <<>>
    THEN ParseErr(Panic("unwrap on empty segment table"))
    ELSE IF ~LastPacketContinues(page) THEN ParseOk(rem, page)
    ELSE Bind(PageParse(rem), LAMBDA r :
             IF ~r.ok THEN r
             ELSE IF page_sequence_number = U32Max THEN ParseErr(AddOverflow)
             ELSE IF r.page.page_sequence_number # page_sequence_number + 1
             THEN ParseErr(Err("Ogg.InvalidStream", page_sequence_number,
                               r.page.page_sequence_number,
                               "SequenceNumberMismatch"))
             ELSE IF r.page.bitstream_serial_number # bitstream_serial_number
             THEN ParseErr(Err("Ogg.UnsupportedStream", 0, 0, SerialChangedMsg))
             ELSE SkipLoopChecked(r.remaining, r.page,
                                  r.page.page_sequence_number,
                                  bitstream_serial_number))

(* Page::skip, built with overflow checks.                                 *)
PageSkipChecked(data) ==
    Bind(PageParse(data), LAMBDA r :
        IF ~r.ok THEN r
        ELSE SkipLoopChecked(r.remaining, r.page, r.page.page_sequence_number,
                             r.page.bitstream_serial_number))

(* The loop of Packets::parse, built with overflow checks.                 *)
RECURSIVE ParseLoopChecked(_, _, _, _, _, _)
ParseLoopChecked(rem, page, max_segment, acc, page_sequence_number, bitstream_serial_number) ==
    IF ~LastPacketContinues(page)
    THEN [ok |-> TRUE, err |-> NoError, remaining |-> rem, max |-> max_segment]
    ELSE Bind(PageParse(rem), LAMBDA r :
             IF ~r.ok THEN [ok |-> FALSE, err |-> r.err, remaining |-> <<>>, max |-> 0]
             ELSE IF r.page.segment_table = <<>>
             THEN [ok |-> FALSE, err |-> Panic("unwrap on empty segment table"),
                   remaining |-> <<>>, max |-> 0]
             ELSE Bind(MaxSegmentSize(r.page, max_segment, acc), LAMBDA m :
                      IF page_sequence_number = U32Max
                      THEN [ok |-> FALSE, err |-> AddOverflow,
                            remaining |-> <<>>, max |-> 0]
                      ELSE IF r.page.page_sequence_number # page_sequence_number + 1
                      THEN [ok |-> FALSE,
                            err |-> Err("Ogg.InvalidStream", page_sequence_number,
                                        r.page.page_sequence_number,
                                        "SequenceNumberMismatch"),
                            remaining |-> <<>>, max |-> 0]
                      ELSE IF r.page.bitstream_serial_number
                              # bitstream_serial_number
                      THEN [ok |-> FALSE,
                            err |-> Err("Ogg.UnsupportedStream", 0, 0,
                                        SerialChangedMsg),
                            remaining |-> <<>>, max |-> 0]
                      ELSE ParseLoopChecked(r.remaining, r.page, m[1], m[2],
                                            r.page.page_sequence_number,
                                            bitstream_serial_number)))

(* Packets::<BUFFER_SIZE>::parse, built with overflow checks.              *)
PacketsParseChecked(data, BUFFER_SIZE) ==
    Bind(PageParse(data), LAMBDA r :
        IF ~r.ok THEN PacketsErr(r.err)
        ELSE IF r.page.segment_table = <<>>
        THEN PacketsErr(Panic("unwrap on empty segment table"))
        ELSE
        Bind(MaxSegmentSize(r.page, 0, 0), LAMBDA m :
        Bind(ParseLoopChecked(r.remaining, r.page, m[1], m[2],
                              r.page.page_sequence_number,
                              r.page.bitstream_serial_number), LAMBDA w :
            IF ~w.ok THEN PacketsErr(w.err)
            ELSE IF w.max > BUFFER_SIZE
            THEN PacketsErr(Err("Ogg.BufferTooSmallError", BUFFER_SIZE, w.max, ""))
            ELSE PacketsOk(w.remaining,
                    [data |-> Take(r.remaining,
                                   Len(r.remaining) - Len(w.remaining)),
                     page |-> r.page,
                     segments |-> IterSegmentTable(r.page),
                     buffer_size |-> BUFFER_SIZE]))))

(* The state checks of next_packets, built with overflow checks.           *)
CheckGroupChecked(mk, rem, pk) ==
    IF mk.bitstream_serial_number # BitstreamSerialNumber(pk)
    THEN ReaderErr(Err("UnsupportedStream", 0, 0, SerialChangedMsg))
    ELSE IF mk.page_sequence_number = U32Max THEN ReaderErr(AddOverflow)
    ELSE IF CurrentPageSequenceNumber(pk) # mk.page_sequence_number + 1
    THEN ReaderErr(Err("InvalidOggStream", 0, 0,
                       "page sequence numbers are not sequential for data"))
    ELSE IF ~EndOfStream(pk)
    THEN Bind(LastPageSequenceNumber(pk), LAMBDA last :
             IF ~last.ok THEN ReaderErr(Panic("unwrap on parse error"))
             ELSE ReaderOk("Continued", rem,
                           InStream(mk.bitstream_serial_number, last.number),
                           NoHeader, pk))
    ELSE ReaderOk("Ended", rem, NoMarker, NoHeader, pk)

(* BitstreamReader<InStream>::next_packets::<BUFFER_SIZE>, built with      *)
(* overflow checks.                                                        *)
NextPacketsOpChecked(rem, mk, BUFFER_SIZE) ==
    Bind(PacketsParseChecked(rem, BUFFER_SIZE), LAMBDA p :
        IF ~p.ok THEN ReaderErr(FromOggError(p.err))
        ELSE CheckGroupChecked(mk, p.remaining, p.packets))

---------------------------------------------------------------------------
HasMoreOp(rem) == rem # <<>>

(* NextReaderOp that yields a reader on an empty residual as well.         *)
NextReaderOpAlways(rem) == [some |-> TRUE, remaining |-> rem]

(* BitstreamReader<EndOfStream>::next_reader: the remaining input of the   *)
(* new Beginning reader, or none.                                          *)
NextReaderOp(rem) ==
    IF HasMoreOp(rem) THEN [some |-> TRUE, remaining |-> rem]
    ELSE [some |-> FALSE, remaining |-> <<>>]

---------------------------------------------------------------------------
(* The inputs.                                                             *)

(* A page of the input.                                                    *)
InputPage(h, sn, sq, table, v) ==
    [version |-> 0, header_type |-> h, bitstream_serial_number |-> sn,
     page_sequence_number |-> sq, segment_table |-> table, opus_version |-> v]

(* Pages of the first serial number: one packet (a version 1 ID header),   *)
(* or a packet that continues on the next page, with every flag and        *)
(* sequence number.                                                        *)
CommonPages ==
    { InputPage(h, 1, sq, table, 1) :
        h \in {0, EndOfStreamFlag}, sq \in 0..MaxSeq,
        table \in { <<19>>, <<ContinuedLace>> } }

(* Pages of another serial number: one packet, every sequence number.      *)
ForeignPages ==
    { InputPage(0, sn, sq, <<19>>, 1) : sn \in Serials \ {1}, sq \in 0..MaxSeq }

(* First pages of a stream with an ID header of version 15 or 16, with a   *)
(* second packet after an ID header of version 1 or 16, or with an ID      *)
(* header packet of 29 bytes, the size of a family 1 header of 8 channels. *)
HeaderPages ==
    { InputPage(0, 1, 0, sh[1], sh[2]) :
        sh \in { <<(<<19>>), MaxOpusVersion>>, <<(<<19>>), MaxOpusVersion + 1>>,
                 <<(<<19, 0>>), 1>>, <<(<<19, 0>>), MaxOpusVersion + 1>>,
                 <<(<<29>>), 1>> } }

PageSet == CommonPages \cup ForeignPages \cup HeaderPages

(* The code compares serial numbers only for equality: the first page of   *)
(* the input has the first serial number.                                  *)
FirstPages == { p \in PageSet : p.bitstream_serial_number = 1 }

LargestBuffer == CHOOSE n \in BufferSizes : \A m \in BufferSizes : m <= n

EndOfInput(e) == e = Wrapped("OggError", Err("Ogg.NotOggStream", 0, 0, ""))

(* The player loop run over a whole input: TRUE when no operation fails    *)
(* for a reason other than the input having ended.                         *)
RECURSIVE Drive(_, _, _)
Drive(st, rem, mk) ==
    IF st = "Beginning"
    THEN Bind(ReadHeaderOp(rem), LAMBDA r :
             IF r.ok THEN Drive("InStream", r.remaining, r.marker)
             ELSE EndOfInput(r.err))
    ELSE IF st = "InStream"
    THEN Bind(NextPacketsOp(rem, mk, LargestBuffer), LAMBDA r :
             IF ~r.ok THEN EndOfInput(r.err)
             ELSE IF r.either = "Ended"
             THEN Drive("EndOfStream", r.remaining, NoMarker)
             ELSE Drive("InStream", r.remaining, r.marker))
    ELSE Bind(NextReaderOp(rem), LAMBDA n :
             IF n.some THEN Drive("Beginning", n.remaining, NoMarker) ELSE TRUE)

(* The inputs of up to n pages.  The reader never reads past the page an   *)
(* operation fails on, so an input is extended by a further page only      *)
(* while the player loop has not failed on it.                             *)
RECURSIVE Streams(_)
Streams(n) ==
    IF n = 0 THEN { <<>> }
    ELSE LET shorter == Streams(n - 1)
             open == { s \in shorter :
                         Len(s) = n - 1 /\ Drive("Beginning", s, NoMarker) }
         IN  shorter \cup { Append(s, p) :
                               s \in open,
                               p \in IF n = 1 THEN FirstPages ELSE PageSet }

---------------------------------------------------------------------------
(* The state machine.                                                      *)

(* The last call: the operation, its BUFFER_SIZE argument and its outcome.  *)
NoResult ==
    [op |-> "none", buffer_size |-> 0, ok |-> TRUE, err |-> NoError,
     either |-> "None", header |-> NoHeader, value |-> FALSE]

Reader(st, rem, mk) == [state |-> st, remaining |-> rem, marker |-> mk]

NoSegment == [before |-> 0, size |-> 0, complete |-> FALSE]

(* The last call of a single function: the function, its BUFFER_SIZE, the  *)
(* Result or Option it returned and what that holds; after_none tells that *)
(* the call before it, on the same Packets value, had returned None.       *)
NoCall ==
    [op |-> "none", buffer_size |-> 0, ok |-> TRUE, err |-> NoError,
     remaining |-> <<>>, page |-> NoPage, kind |-> "None", data |-> <<>>,
     header |-> NoPageHeader, segment |-> NoSegment,
     family255 |-> FALSE, max_channels |-> 0, opus |-> NoHeader,
     table |-> NoTable, channel |-> 0, mapping |-> MappingNone,
     offset |-> 0, promoted |-> NoError, after_none |-> FALSE,
     overflow_checks |-> FALSE]

(* Pages between the start of one remaining input and the start of a later *)
(* one.                                                                    *)
Taken(old, new) == Take(old, Len(old) - Len(new))

(* Bitstream::new and Bitstream::reader *)
Init ==
    /\ bitstream \in Streams(MaxPages)
    /\ state = "Beginning"
    /\ remaining = bitstream
    /\ marker = NoMarker
    /\ result = NoResult
    /\ packets = NoPackets
    /\ prev = Reader("None", <<>>, NoMarker)
    /\ consumed = <<>>
    /\ call = NoCall
    /\ delivered = <<>>

ReadHeader ==
    /\ state = "Beginning"
    /\ \E r \in {ReadHeaderOp(remaining)} :
           /\ result' = [NoResult EXCEPT !.op = "read_header", !.ok = r.ok,
                                         !.err = r.err, !.either = r.either,
                                         !.header = r.header]
           /\ state' = IF r.ok THEN "InStream" ELSE "Failed"
           /\ remaining' = IF r.ok THEN r.remaining ELSE remaining
           /\ marker' = IF r.ok THEN r.marker ELSE marker
           /\ consumed' = IF r.ok THEN Taken(remaining, r.remaining) ELSE consumed
    /\ prev' = Reader(state, remaining, marker)
    /\ packets' = NoPackets
    /\ UNCHANGED <<bitstream, call, delivered>>

(* NextPackets that returns a reader on the input it was called on.        *)
NextPacketsInPlace ==
    /\ state = "InStream"
    /\ \E BUFFER_SIZE \in BufferSizes :
         \E r \in {NextPacketsOp(remaining, marker, BUFFER_SIZE)} :
             /\ result' = [NoResult EXCEPT !.op = "next_packets",
                                           !.buffer_size = BUFFER_SIZE,
                                           !.ok = r.ok, !.err = r.err,
                                           !.either = r.either]
             /\ state' = IF r.ok
                         THEN (IF r.either = "Ended" THEN "EndOfStream"
                               ELSE "InStream")
                         ELSE IF r.err.kind = "Panic" THEN "Failed" ELSE state
             /\ marker' = IF r.ok THEN r.marker ELSE marker
             /\ packets' = r.packets
    /\ prev' = Reader(state, remaining, marker)
    /\ UNCHANGED <<bitstream, remaining, consumed, call, delivered>>

(* NextPackets that steps over the first page of its input when it fails.  *)
NextPacketsConsuming ==
    /\ state = "InStream"
    /\ \E BUFFER_SIZE \in BufferSizes :
         \E r \in {NextPacketsOp(remaining, marker, BUFFER_SIZE)} :
             /\ result' = [NoResult EXCEPT !.op = "next_packets",
                                           !.buffer_size = BUFFER_SIZE,
                                           !.ok = r.ok, !.err = r.err,
                                           !.either = r.either]
             /\ state' = IF r.ok
                         THEN (IF r.either = "Ended" THEN "EndOfStream"
                               ELSE "InStream")
                         ELSE IF r.err.kind = "Panic" THEN "Failed" ELSE state
             /\ remaining' = IF r.ok THEN r.remaining ELSE Drop(remaining, 1)
             /\ marker' = IF r.ok THEN r.marker ELSE marker
             /\ packets' = r.packets
             /\ consumed' = IF r.ok THEN consumed \o Taken(remaining, r.remaining)
                            ELSE consumed
    /\ prev' = Reader(state, remaining, marker)
    /\ UNCHANGED <<bitstream, call, delivered>>

NextPackets ==
    /\ state = "InStream"
    /\ \E BUFFER_SIZE \in BufferSizes :
         \E r \in {NextPacketsOp(remaining, marker, BUFFER_SIZE)} :
             /\ result' = [NoResult EXCEPT !.op = "next_packets",
                                           !.buffer_size = BUFFER_SIZE,
                                           !.ok = r.ok, !.err = r.err,
                                           !.either = r.either]
             /\ state' = IF r.ok
                         THEN (IF r.either = "Ended" THEN "EndOfStream"
                               ELSE "InStream")
                         ELSE IF r.err.kind = "Panic" THEN "Failed" ELSE state
             /\ remaining' = IF r.ok THEN r.remaining ELSE remaining
             /\ marker' = IF r.ok THEN r.marker ELSE marker
             /\ packets' = r.packets
             /\ consumed' = IF r.ok THEN consumed \o Taken(remaining, r.remaining)
                            ELSE consumed
    /\ prev' = Reader(state, remaining, marker)
    /\ UNCHANGED <<bitstream, call, delivered>>

HasMore ==
    /\ state = "EndOfStream"
    /\ result' = [NoResult EXCEPT !.op = "has_more",
                                  !.value = HasMoreOp(remaining)]
    /\ prev' = Reader(state, remaining, marker)
    /\ UNCHANGED <<bitstream, state, remaining, marker, packets, consumed,
                   call, delivered>>

NextReader ==
    /\ state = "EndOfStream"
    /\ \E n \in {NextReaderOp(remaining)} :
           /\ result' = [NoResult EXCEPT !.op = "next_reader", !.value = n.some]
           /\ state' = IF n.some THEN "Beginning" ELSE "Finished"
           /\ remaining' = n.remaining
           /\ consumed' = IF n.some THEN <<>> ELSE consumed
    /\ prev' = Reader(state, remaining, marker)
    /\ marker' = NoMarker
    /\ packets' = NoPackets
    /\ UNCHANGED <<bitstream, call, delivered>>

Next == ReadHeader \/ NextPackets \/ HasMore \/ NextReader

Spec == Init /\ [][Next]_vars

(* The decode loop of the player: it calls next_packets on the reader it   *)
(* holds until the call fails or returns Ended, so a call that is possible *)
(* is made.  The inputs are the streams of pages of one serial number.     *)
LiveInputs ==
    { s \in Streams(MaxPages) : \A i \in 1..Len(s) : s[i] \in CommonPages }

InitLive == Init /\ bitstream \in LiveInputs

SpecLive == InitLive /\ [][Next]_vars /\ WF_vars(NextPackets)

---------------------------------------------------------------------------
(* The container layer on its own: Page::parse, Page::skip,                *)
(* Packets::<N>::parse and Packets::next called on an input.               *)

(* Lace tables: one packet, an empty packet, two packets, a packet of 300  *)
(* bytes, a packet followed by one that continues on the next page, and a  *)
(* page that is all one continued packet.                                  *)
ContainerTables ==
    { <<19>>, <<0>>, <<19, 30>>, <<ContinuedLace, 45>>, <<19, ContinuedLace>>,
      <<ContinuedLace, ContinuedLace>> }

(* Pages of the first serial number, with every flag and sequence number.  *)
ContainerPages ==
    { InputPage(h, 1, sq, table, 1) :
        h \in {0, EndOfStreamFlag}, sq \in 0..MaxSeq, table \in ContainerTables }

(* Pages of another serial number.                                         *)
ChangedSerialPages ==
    { InputPage(0, sn, sq, table, 1) :
        sn \in Serials \ {1}, sq \in 0..MaxSeq,
        table \in { <<19>>, <<ContinuedLace, ContinuedLace>> } }

(* Pages with a version byte other than 0.                                 *)
BadVersionPages ==
    { [InputPage(0, 1, sq, table, 1) EXCEPT !.version = v] :
        v \in {1, 255}, sq \in {0, 1},
        table \in { <<19>>, <<ContinuedLace, ContinuedLace>> } }

ContainerPageSet == ContainerPages \cup ChangedSerialPages \cup BadVersionPages

(* Pages without a segment: the segment count is 0 and the lace table is   *)
(* empty.  The lace values decide whether a page ends a packet or leaves   *)
(* it open; a page without any stands at the start of an input only.       *)
EmptyLacePages ==
    { InputPage(h, 1, sq, <<>>, 1) : h \in {0, EndOfStreamFlag}, sq \in {0, 1} }

(* The first page of an input has the first serial number and one of the   *)
(* first two sequence numbers.                                             *)
ContainerFirstPages ==
    { p \in ContainerPages \cup BadVersionPages : p.page_sequence_number <= 1 }
        \cup EmptyLacePages

(* The page walker ran out of input: the pages so far are an unfinished    *)
(* group without a fault.                                                  *)
GroupOpen(s) ==
    \E r \in {PageSkip(s)} : ~r.ok /\ r.err.kind = "Ogg.NotOggStream"

(* The inputs of up to n pages that hold one page group, whole or not.  No *)
(* function reads past the page it fails on, so an input is extended by a  *)
(* further page only while its group is unfinished.                        *)
RECURSIVE Groups(_)
Groups(n) ==
    IF n = 0 THEN { <<>> }
    ELSE LET shorter == Groups(n - 1)
             open == { s \in shorter : Len(s) = n - 1 /\ GroupOpen(s) }
         IN  shorter \cup { Append(s, p) :
                               s \in open,
                               p \in IF n = 1 THEN ContainerFirstPages
                                     ELSE ContainerPageSet }

(* The page that follows a whole group in some inputs.                     *)
TrailingPage == InputPage(0, 1, 0, <<19>>, 1)

(* A group of fewer than MaxPages pages, or a whole group and the page     *)
(* after it.                                                               *)
ContainerInputs ==
    LET groups == Groups(MaxPages - 1)
    IN  groups \cup { Append(s, TrailingPage) :
                        s \in { g \in groups : PageSkip(g).ok } }

InitContainer ==
    /\ bitstream \in ContainerInputs
    /\ state = "Input"
    /\ remaining = bitstream
    /\ marker = NoMarker
    /\ result = NoResult
    /\ packets = NoPackets
    /\ prev = Reader("None", <<>>, NoMarker)
    /\ consumed = <<>>
    /\ call = NoCall
    /\ delivered = <<>>

CallPageParse ==
    /\ state = "Input"
    /\ \E r \in {PageParse(bitstream)} :
           call' = [NoCall EXCEPT !.op = "Page::parse", !.ok = r.ok,
                                  !.err = r.err, !.remaining = r.remaining,
                                  !.page = IF r.ok THEN r.page ELSE NoPage]
    /\ state' = "Returned"
    /\ UNCHANGED <<bitstream, remaining, marker, result, packets, prev, consumed,
                   delivered>>

CallPageSkip ==
    /\ state = "Input"
    /\ \E r \in {PageSkip(bitstream)} :
           call' = [NoCall EXCEPT !.op = "Page::skip", !.ok = r.ok,
                                  !.err = r.err, !.remaining = r.remaining,
                                  !.page = IF r.ok THEN r.page ELSE NoPage]
    /\ state' = "Returned"
    /\ UNCHANGED <<bitstream, remaining, marker, result, packets, prev, consumed,
                   delivered>>

CallPacketsParse ==
    /\ state = "Input"
    /\ \E BUFFER_SIZE \in BufferSizes :
         \E r \in {PacketsParse(bitstream, BUFFER_SIZE)} :
             /\ call' = [NoCall EXCEPT !.op = "Packets::parse",
                                       !.buffer_size = BUFFER_SIZE,
                                       !.ok = r.ok, !.err = r.err,
                                       !.remaining = r.remaining]
             /\ packets' = r.packets
             /\ state' = IF r.ok THEN "Packets" ELSE "Returned"
    /\ UNCHANGED <<bitstream, remaining, marker, result, prev, consumed,
                   delivered>>

CallPacketsNext ==
    /\ state = "Packets"
    /\ \E r \in {PacketsNext(packets)} :
           /\ call' = [NoCall EXCEPT !.op = "Packets::next",
                                     !.buffer_size = packets.buffer_size,
                                     !.ok = r.kind # "Panic",
                                     !.err = IF r.kind = "Panic" THEN Panic(r.msg)
                                             ELSE NoError,
                                     !.kind = r.kind, !.data = r.data,
                                     !.after_none =
                                         /\ call.op = "Packets::next"
                                         /\ call.kind = "None"]
           /\ packets' = r.packets
           /\ delivered' = IF r.kind = "Some" THEN Append(delivered, r.data)
                           ELSE delivered
           /\ state' = IF r.kind = "Panic" THEN "Returned" ELSE "Packets"
    /\ UNCHANGED <<bitstream, remaining, marker, result, prev, consumed>>

NextContainer ==
    CallPageParse \/ CallPageSkip \/ CallPacketsParse \/ CallPacketsNext

SpecContainer == InitContainer /\ [][NextContainer]_vars

---------------------------------------------------------------------------
(* One page as bytes: Page::parse on the bytes of an input, then the       *)
(* segment iterator over the lace table of the page.                       *)

(* Lace values: an empty segment, a short one, a full one.                 *)
LaceAlphabet == {0, 3, ContinuedLace}

(* The lace tables of up to n values.                                      *)
RECURSIVE LaceTables(_)
LaceTables(n) ==
    IF n = 0 THEN { <<>> }
    ELSE LaceTables(n - 1)
             \cup { Append(t, v) : t \in { x \in LaceTables(n - 1) : Len(x) = n - 1 },
                                   v \in LaceAlphabet }

(* Version, flags, granule position, serial number and sequence number of  *)
(* the encoded pages; the numbers fill one byte or several.                *)
HeaderFields ==
    { <<0, 0, 0, 1, 0>>, <<0, 4, 960, 2132339074, 16 + MaxSeq>>,
      <<0, 1, 16777217, 258, 65536 * MaxSeq>>, <<1, 2, 0, 1, 0>> }

(* The body of an encoded page: the bytes count up from its length.        *)
BodyBytes(size) == [i \in 1..size |-> (i + size) % 256]

(* The bytes of a page: capture pattern, version, flags, granule position, *)
(* serial number, sequence number, checksum, lace count, lace table, body. *)
EncodePage(f, table) ==
    OggSTag \o <<f[1], f[2]>> \o LeBytes(f[3], 8) \o LeBytes(f[4], 4)
        \o LeBytes(f[5], 4) \o LeBytes(0, 4) \o <<Len(table)>> \o table
        \o BodyBytes(SumSeq(table))

(* What follows the page in the input: nothing, a few bytes, the start of  *)
(* another page.                                                           *)
Tails == { <<>>, <<7, 7, 7>>, EncodePage(<<0, 0, 0, 1, 1>>, <<0>>) }

(* Where an input is cut short: inside each header field, inside the lace  *)
(* table, inside the body.                                                 *)
Cuts(table) ==
    { 0, 3, 4, 5, 9, 14, 17, 21, 25, 26, 27 }
        \cup { 27 + Len(table) - 1 : x \in { y \in {1} : Len(table) > 0 } }
        \cup { 27 + Len(table) + SumSeq(table) - 1 :
                  x \in { y \in {1} : SumSeq(table) > 0 } }

(* Whole pages with something behind them, pages cut short, and bytes that *)
(* do not start with the capture pattern.                                  *)
ByteInputs ==
    { EncodePage(f, table) \o tail :
        f \in HeaderFields, table \in LaceTables(MaxLace), tail \in Tails }
    \cup UNION { { Take(EncodePage(f, table), cut) : cut \in Cuts(table) } :
                   f \in HeaderFields, table \in LaceTables(MaxLace) }
    \cup { <<79, 103, 103, 115, 0, 0>> }

InitPage ==
    /\ bitstream \in ByteInputs
    /\ state = "Input"
    /\ remaining = bitstream
    /\ marker = NoMarker
    /\ result = NoResult
    /\ packets = NoPackets
    /\ prev = Reader("None", <<>>, NoMarker)
    /\ consumed = <<>>
    /\ call = NoCall
    /\ delivered = <<>>

(* Page::parse on the input.                                               *)
CallPageParseBytes ==
    /\ state = "Input"
    /\ \E r \in {PageParseBytes(bitstream)} :
           /\ call' = [NoCall EXCEPT !.op = "Page::parse", !.ok = r.ok,
                                     !.err = r.err, !.remaining = r.remaining,
                                     !.header = r.header, !.data = r.data]
           /\ state' = IF r.ok THEN "Page" ELSE "Returned"
    /\ UNCHANGED <<bitstream, remaining, marker, result, packets, prev, consumed,
                   delivered>>

(* PageHeader::iter_segment_table on the bytes of the parsed page.         *)
CallIterSegmentTable ==
    /\ state = "Page"
    /\ \E r \in {IterSegmentTableBytes(bitstream)} :
           /\ call' = [call EXCEPT !.op = "iter_segment_table", !.ok = r.ok]
           /\ packets' = [NoPackets EXCEPT !.segments = r.it]
           /\ state' = IF r.ok THEN "Segments" ELSE "Returned"
    /\ UNCHANGED <<bitstream, remaining, marker, result, prev, consumed,
                   delivered>>

(* SegmentTableIterator::next *)
CallSegmentsNext ==
    /\ state = "Segments"
    /\ \E r \in {SegmentsNext(packets.segments)} :
           /\ call' = [call EXCEPT !.op = "segments.next",
                                   !.kind = IF r.some THEN "Some" ELSE "None",
                                   !.segment = IF r.some
                                               THEN [before |-> r.before,
                                                     size |-> r.size,
                                                     complete |-> r.complete]
                                               ELSE NoSegment]
           /\ packets' = [packets EXCEPT !.segments = r.it]
           /\ delivered' = IF r.some
                           THEN Append(delivered, [before |-> r.before,
                                                   size |-> r.size,
                                                   complete |-> r.complete])
                           ELSE delivered
    /\ UNCHANGED <<bitstream, state, remaining, marker, result, prev, consumed>>

NextPage == CallPageParseBytes \/ CallIterSegmentTable \/ CallSegmentsNext

SpecPage == InitPage /\ [][NextPage]_vars

---------------------------------------------------------------------------
(* The Opus layer on its own: ChannelMappingTable::parse and               *)
(* OpusHeader::parse called on the bytes of an ID header packet, and       *)
(* get_mapping called on the channels of the parsed header.                *)

(* Channel counts: none, each count up to MaxMapped, and the largest.      *)
ChannelCounts == 0..MaxMapped \cup {255}

(* Channel mapping families: 0, 1, the reserved 2 and 254, and 255.        *)
Families == {0, 1, 2, 254, 255}

(* Stream count and coupled count: valid pairs, no stream, more coupled    *)
(* streams than streams, and totals of 255, 256 and 510.                   *)
StreamCounts ==
    { <<1, 0>>, <<1, 1>>, <<2, 1>>, <<4, 2>>, <<5, 3>>, <<0, 0>>, <<0, 1>>,
      <<1, 2>>, <<128, 127>>, <<129, 127>>, <<255, 255>> }

(* Mapping bytes of length n: all 0, counting up from 0, all silent,       *)
(* counting down, and two large values at the end.                         *)
Mappings(n) ==
    { [i \in 1..n |-> 0], [i \in 1..n |-> (i - 1) % 256], [i \in 1..n |-> 255],
      [i \in 1..n |-> (n - i) % 256],
      [i \in 1..n |-> IF i = n THEN 254 ELSE IF i = n - 1 THEN 253 ELSE 0] }

(* The bytes behind the family byte: a table of as many mapping bytes as   *)
(* there are channels, of one more or one less, or a table cut short.      *)
TableBytes(channels) ==
    { <<>>, <<1>> }
        \cup UNION { { <<sc[1], sc[2]>> \o m : m \in Mappings(n) } :
                       sc \in StreamCounts,
                       n \in { k \in {channels - 1, channels, channels + 1} :
                                 k >= 0 } }

(* ID header packets, whole and cut short, and a packet of another codec.  *)
OpusInputs ==
    UNION { { OpusHeadBytes(1, channels, family) \o t : t \in TableBytes(channels) } :
              channels \in ChannelCounts, family \in Families }
    \cup { Take(OpusHeadBytes(1, 2, 0), cut) : cut \in {0, 5, 8, 9, 10, 13, 17, 18} }
    \cup { <<1, 118, 111, 114, 98, 105, 115>> \o OpusHeadBytes(1, 2, 0) }

(* Channel indexes get_mapping is called with.                             *)
ChannelIndexes == 0..MaxMapped \cup {254, 255}

(* Capacities the table parser is instantiated with.                       *)
TableSizes == {Family1MaxChannels, Family255MaxChannels}

InitOpus ==
    /\ bitstream \in OpusInputs
    /\ state = "Input"
    /\ remaining = bitstream
    /\ marker = NoMarker
    /\ result = NoResult
    /\ packets = NoPackets
    /\ prev = Reader("None", <<>>, NoMarker)
    /\ consumed = <<>>
    /\ call = NoCall
    /\ delivered = <<>>

(* ChannelMappingTable::<MAX_CHANNELS>::parse on the bytes behind the      *)
(* family byte, with the channel count of the header.                      *)
CallTableParse ==
    /\ state = "Input"
    /\ Len(bitstream) >= 19
    /\ \E MAX_CHANNELS \in TableSizes :
         \E r \in {ChannelMappingTableParse(Drop(bitstream, 19), bitstream[10],
                                            MAX_CHANNELS)} :
             call' = [NoCall EXCEPT !.op = "ChannelMappingTable::parse",
                                    !.max_channels = MAX_CHANNELS,
                                    !.channel = bitstream[10],
                                    !.ok = r.ok, !.err = r.err, !.table = r.table]
    /\ state' = "Returned"
    /\ UNCHANGED <<bitstream, remaining, marker, result, packets, prev, consumed,
                   delivered>>

(* OpusHeader::parse, built with or without the family255 feature.         *)
CallOpusHeaderParse ==
    /\ state = "Input"
    /\ \E family255 \in BOOLEAN :
         \E r \in {OpusHeaderParse(bitstream, family255)} :
             /\ call' = [NoCall EXCEPT !.op = "OpusHeader::parse",
                                       !.family255 = family255,
                                       !.ok = r.ok, !.err = r.err,
                                       !.opus = r.header]
             /\ state' = IF r.ok THEN "Header" ELSE "Returned"
    /\ UNCHANGED <<bitstream, remaining, marker, result, packets, prev, consumed,
                   delivered>>

(* ChannelMapping::get_mapping on the channels of the parsed header.       *)
CallGetMapping ==
    /\ state = "Header"
    /\ \E channel \in ChannelIndexes :
           call' = [call EXCEPT !.op = "get_mapping", !.channel = channel,
                                !.mapping = GetMapping(call.opus, channel)]
    /\ UNCHANGED <<bitstream, state, remaining, marker, result, packets, prev,
                   consumed, delivered>>

NextOpus == CallTableParse \/ CallOpusHeaderParse \/ CallGetMapping

SpecOpus == InitOpus /\ [][NextOpus]_vars

---------------------------------------------------------------------------
(* Pages and ID headers as bytes, at the start of the input and behind a   *)
(* page of it: Page::parse on the input and on what each page leaves,      *)
(* OpusHeader::parse on the input, and the conversion of the error of a    *)
(* failed call into a BitstreamError by the ? operator.                    *)

(* The bytes of a page with the last byte of its capture pattern changed.  *)
BadCapture(page) == <<79, 103, 103, 120>> \o Drop(page, 4)

(* A page of one packet of three bytes.                                    *)
SmallPage(sequence) == EncodePage(<<0, 0, 0, 1, sequence>>, <<3>>)

(* Two pages, and then: the end, bytes that are no page, a page with a     *)
(* changed capture pattern, the start of a capture pattern, a page cut     *)
(* inside a header field, a page cut inside its body.                      *)
LaterPageInputs ==
    { SmallPage(0) \o SmallPage(1) \o tail :
        tail \in { <<>>, <<7, 7, 7, 7, 7>>, BadCapture(SmallPage(2)),
                   Take(SmallPage(2), 2), Take(SmallPage(2), 16),
                   Take(SmallPage(2), 30) } }
    \cup { SmallPage(0) \o BadCapture(SmallPage(1)) }

BytesInputs == ByteInputs \cup OpusInputs \cup LaterPageInputs

InitBytes ==
    /\ bitstream \in BytesInputs
    /\ state = "Input"
    /\ remaining = bitstream
    /\ marker = NoMarker
    /\ result = NoResult
    /\ packets = NoPackets
    /\ prev = Reader("None", <<>>, NoMarker)
    /\ consumed = <<>>
    /\ call = NoCall
    /\ delivered = <<>>

(* Page::parse on what the page before left, as the loops of Page::skip    *)
(* and Packets::parse call it; offset is where that input starts.          *)
CallPageParseNext ==
    /\ state = "Page"
    /\ \E r \in {PageParseBytes(call.remaining)} :
           /\ call' = [NoCall EXCEPT !.op = "Page::parse", !.ok = r.ok,
                                     !.err = r.err, !.remaining = r.remaining,
                                     !.header = r.header, !.data = r.data,
                                     !.offset = Len(bitstream)
                                                  - Len(call.remaining)]
           /\ state' = IF r.ok THEN "Page" ELSE "Returned"
    /\ UNCHANGED <<bitstream, remaining, marker, result, packets, prev, consumed,
                   delivered>>

(* Variants of container::OggError.                                        *)
OggKinds ==
    { "Ogg.UnsupportedVersion", "Ogg.ParsingError", "Ogg.EndOfStreamError",
      "Ogg.InvalidStream", "Ogg.UnsupportedStream", "Ogg.NotOggStream",
      "Ogg.BufferTooSmallError" }

(* Variants of opus::OpusError.                                            *)
OpusKinds ==
    { "Opus.ParsingError", "Opus.EndOfStreamError", "Opus.InvalidStream",
      "Opus.UnsupportedStream", "Opus.NotOpusStream" }

(* Error values of both layers, one or two of each variant.                *)
ErrorValues ==
    { Err("Ogg.UnsupportedVersion", 1, 0, ""), Err("Ogg.ParsingError", 0, 0, "Tag"),
      OggNeeded(2), OggEof,
      Err("Ogg.InvalidStream", 1, 3, "SequenceNumberMismatch"),
      Err("Ogg.UnsupportedStream", 0, 0, SerialChangedMsg),
      Err("Ogg.NotOggStream", 0, 0, ""),
      Err("Ogg.BufferTooSmallError", 20, 22, ""),
      Err("Opus.ParsingError", 0, 0, "Tag"),
      Err("Opus.EndOfStreamError", 2, 0, ""),
      Err("Opus.InvalidStream", 0, 3, "BadNumberOfChannels"),
      Err("Opus.UnsupportedStream", 0, 0,
          "family 255 channel mapping is not supported"),
      Err("Opus.NotOpusStream", 0, 0, "") }

(* BitstreamError::from, the impl chosen by the type of the error.         *)
From(error) ==
    IF error.kind \in OpusKinds THEN FromOpusError(error)
    ELSE FromOggError(error)

(* The ? operator of the reader on an error: on the error of the failed    *)
(* call, or on an error value of either layer.                             *)
CallFrom ==
    /\ state \in {"Input", "Returned"}
    /\ state = "Returned" => ~call.ok
    /\ \E error \in IF state = "Returned" THEN {call.err} ELSE ErrorValues :
           call' = [call EXCEPT !.err = error, !.promoted = From(error)]
    /\ state' = "Promoted"
    /\ UNCHANGED <<bitstream, remaining, marker, result, packets, prev, consumed,
                   delivered>>

NextBytes ==
    CallPageParseBytes \/ CallPageParseNext \/ CallOpusHeaderParse \/ CallFrom

SpecBytes == InitBytes /\ [][NextBytes]_vars

---------------------------------------------------------------------------
(* Sequence numbers at the upper bound: Page::skip, Packets::parse and the *)
(* reader on pages numbered 2^32 - 2, 2^32 - 1, 0 and 1, in a build with   *)
(* overflow checks (the dev and test profiles) and in one without (the     *)
(* release profile).  The build is fixed for a run: call.overflow_checks.  *)

TopSequenceNumbers == {U32Max - 1, U32Max, 0, 1}

(* One packet of 19 bytes, or a packet that continues on the next page.    *)
TopPages ==
    { InputPage(h, 1, sq, table, 1) :
        h \in {0, EndOfStreamFlag}, sq \in TopSequenceNumbers,
        table \in { <<19>>, <<ContinuedLace>> } }

RECURSIVE TopGroups(_)
TopGroups(n) ==
    IF n = 0 THEN { <<>> }
    ELSE TopGroups(n - 1)
             \cup { Append(g, p) :
                      g \in { x \in TopGroups(n - 1) : Len(x) = n - 1 },
                      p \in TopPages }

(* An ID header page and a comment page of any of the sequence numbers,    *)
(* one packet each, and the pages behind them.  read_header computes no    *)
(* successor on these: neither of its two groups has a second page.        *)
TopStreams ==
    { <<InputPage(0, 1, 0, <<19>>, 1), InputPage(0, 1, sq, <<19>>, 1)>> \o g :
        sq \in TopSequenceNumbers, g \in TopGroups(MaxPages - 2) }

InitOverflow ==
    /\ \/ state = "Input" /\ bitstream \in TopGroups(MaxPages - 1) \ { <<>> }
       \/ state = "Beginning" /\ bitstream \in TopStreams
    /\ remaining = bitstream
    /\ marker = NoMarker
    /\ result = NoResult
    /\ packets = NoPackets
    /\ prev = Reader("None", <<>>, NoMarker)
    /\ consumed = <<>>
    /\ \E overflow_checks \in BOOLEAN :
           call = [NoCall EXCEPT !.overflow_checks = overflow_checks]
    /\ delivered = <<>>

(* Page::skip of the build on the input.                                   *)
CallPageSkipBuilt ==
    /\ state = "Input"
    /\ \E r \in {IF call.overflow_checks THEN PageSkipChecked(bitstream)
                 ELSE PageSkip(bitstream)} :
           call' = [call EXCEPT !.op = "Page::skip", !.ok = r.ok,
                                !.err = r.err, !.remaining = r.remaining,
                                !.page = IF r.ok THEN r.page ELSE NoPage]
    /\ state' = "Returned"
    /\ UNCHANGED <<bitstream, remaining, marker, result, packets, prev, consumed,
                   delivered>>

(* Packets::<BUFFER_SIZE>::parse of the build on the input.                *)
CallPacketsParseBuilt ==
    /\ state = "Input"
    /\ \E BUFFER_SIZE \in BufferSizes :
         \E r \in {IF call.overflow_checks
                   THEN PacketsParseChecked(bitstream, BUFFER_SIZE)
                   ELSE PacketsParse(bitstream, BUFFER_SIZE)} :
             /\ call' = [call EXCEPT !.op = "Packets::parse",
                                     !.buffer_size = BUFFER_SIZE,
                                     !.ok = r.ok, !.err = r.err,
                                     !.remaining = r.remaining]
             /\ packets' = r.packets
    /\ state' = "Returned"
    /\ UNCHANGED <<bitstream, remaining, marker, result, prev, consumed,
                   delivered>>

(* next_packets of the build on the reader held.                           *)
NextPacketsBuilt ==
    /\ state = "InStream"
    /\ \E BUFFER_SIZE \in BufferSizes :
         \E r \in {IF call.overflow_checks
                   THEN NextPacketsOpChecked(remaining, marker, BUFFER_SIZE)
                   ELSE NextPacketsOp(remaining, marker, BUFFER_SIZE)} :
             /\ result' = [NoResult EXCEPT !.op = "next_packets",
                                           !.buffer_size = BUFFER_SIZE,
                                           !.ok = r.ok, !.err = r.err,
                                           !.either = r.either]
             /\ state' = IF r.ok
                         THEN (IF r.either = "Ended" THEN "EndOfStream"
                               ELSE "InStream")
                         ELSE IF r.err.kind = "Panic" THEN "Failed" ELSE state
             /\ remaining' = IF r.ok THEN r.remaining ELSE remaining
             /\ marker' = IF r.ok THEN r.marker ELSE marker
             /\ packets' = r.packets
             /\ consumed' = IF r.ok THEN consumed \o Taken(remaining, r.remaining)
                            ELSE consumed
    /\ prev' = Reader(state, remaining, marker)
    /\ UNCHANGED <<bitstream, call, delivered>>

NextOverflow ==
    CallPageSkipBuilt \/ CallPacketsParseBuilt \/ ReadHeader \/ NextPacketsBuilt

SpecOverflow == InitOverflow /\ [][NextOverflow]_vars

---------------------------------------------------------------------------
(* What the claims speak of, stated on the input alone.                    *)

(* A page that ends at a packet boundary: its last lace value is below     *)
(* 255.                                                                    *)
EndsAtBoundary(p) ==
    p.segment_table # <<>> /\ p.segment_table[Len(p.segment_table)] < 255

(* Number of pages of the page group an input starts with: up to the first *)
(* page that ends at a packet boundary; 0 when there is no such page.      *)
GroupLen(input) ==
    IF \E k \in 1..Len(input) : EndsAtBoundary(input[k])
    THEN CHOOSE k \in 1..Len(input) :
            /\ EndsAtBoundary(input[k])
            /\ \A j \in 1..(k - 1) : ~EndsAtBoundary(input[j])
    ELSE 0

PageGroup(input) == Take(input, GroupLen(input))

LastOf(s) == s[Len(s)]

CarriesEos(p) == p.header_type \in {4, 5, 6, 7}

Succeeded(op) == result.op = op /\ result.ok

StreamStep == Succeeded("read_header") \/ Succeeded("next_packets")

Failed(op, kind, msg) ==
    result.op = op /\ ~result.ok /\ result.err.kind = kind /\ result.err.msg = msg

(* The lace values of the pages of a group, one after the other.           *)
RECURSIVE LaceValues(_)
LaceValues(pages) ==
    IF pages = <<>> THEN <<>>
    ELSE Head(pages).segment_table \o LaceValues(Tail(pages))

(* Where the packet that starts at lace value i ends: at the next value    *)
(* below 255, or at the end of the sequence.                               *)
PacketEnd(lace, i) ==
    IF \E b \in i..Len(lace) : lace[b] < 255
    THEN CHOOSE b \in i..Len(lace) :
            lace[b] < 255 /\ \A c \in i..(b - 1) : lace[c] = 255
    ELSE Len(lace)

(* Sizes of the packets of a lace sequence.                                *)
PacketSizes(lace) ==
    { SumSeq(SubSeq(lace, i, PacketEnd(lace, i))) :
        i \in { a \in 1..Len(lace) : a = 1 \/ lace[a - 1] < 255 } }

(* The input starts with a page group that Page::skip walks: the group is  *)
(* complete, its pages follow one another by sequence number and share one *)
(* serial number.                                                          *)
GroupWalks(input) ==
    /\ GroupLen(input) > 0
    /\ \A i \in 1..(GroupLen(input) - 1) :
           /\ input[i + 1].page_sequence_number = input[i].page_sequence_number + 1
           /\ input[i + 1].bitstream_serial_number = input[i].bitstream_serial_number

(* The input starts with a page group that Packets::<N>::parse accepts: a  *)
(* group as above in which no packet is larger than N.                     *)
GroupParses(input, N) ==
    /\ GroupWalks(input)
    /\ \A s \in PacketSizes(LaceValues(PageGroup(input))) : s <= N

(* The input behind its first page group.                                  *)
AfterGroup(input) == Drop(input, GroupLen(input))

(* The checks of next_packets, stated on the group and the reader it was   *)
(* called on.                                                              *)
SerialMatches == prev.remaining[1].bitstream_serial_number
                     = prev.marker.bitstream_serial_number

SequenceFollows == prev.remaining[1].page_sequence_number
                       = prev.marker.page_sequence_number + 1

NextPacketsOnGroup ==
    /\ result.op = "next_packets"
    /\ GroupParses(prev.remaining, result.buffer_size)

SequenceMsg == "page sequence numbers are not sequential for data"

(* The ID header page read_header was called on, and what follows its      *)
(* group.                                                                  *)
HeaderPage == prev.remaining[1]

CommentInput == AfterGroup(prev.remaining)

(* Number of packets that end in a lace sequence.                          *)
PacketCount(lace) == Cardinality({ i \in 1..Len(lace) : lace[i] < 255 })

(* read_header was called on a header group that parses and starts with    *)
(* sequence number 0.                                                      *)
ReadHeaderOnGroup ==
    /\ result.op = "read_header"
    /\ GroupParses(prev.remaining, HeaderBufferSize)
    /\ HeaderPage.page_sequence_number = 0

(* ... and the first packet of the group is a whole ID header (19 bytes    *)
(* for mapping family 0).                                                  *)
ReadHeaderOnIdHeader ==
    /\ ReadHeaderOnGroup
    /\ HeaderPage.segment_table[1] = 19

(* ... of a supported version, alone in its group.                         *)
ReadHeaderOnValidHeader ==
    /\ ReadHeaderOnIdHeader
    /\ HeaderPage.opus_version <= 15
    /\ PacketCount(LaceValues(PageGroup(prev.remaining))) = 1

---------------------------------------------------------------------------
(* C1: for every page group next_packets accepts, the returned reader is   *)
(* Ended if and only if the final page of the group carries the EOS flag,  *)
(* and Continued otherwise.                                                *)
C1_EndedIffFinalPageEos ==
    Succeeded("next_packets") =>
        /\ result.either \in {"Ended", "Continued"}
        /\ (result.either = "Ended")
               <=> CarriesEos(LastOf(PageGroup(prev.remaining)))

(* C2: in a run of a successful read_header and successful next_packets    *)
(* calls, the first page consumed has sequence number 0 and every further  *)
(* page consumed has the sequence number of the page before it plus one.   *)
C2_SequenceByOne ==
    StreamStep =>
        /\ consumed # <<>>
        /\ consumed[1].page_sequence_number = 0
        /\ \A i \in 1..(Len(consumed) - 1) :
               consumed[i + 1].page_sequence_number
                   = consumed[i].page_sequence_number + 1

(* C3: every page consumed by a successful read_header and the successful  *)
(* next_packets calls after it has the serial number of the ID header      *)
(* page, and so has the state of the reader.                               *)
C3_SerialStability ==
    StreamStep =>
        /\ consumed # <<>>
        /\ \A i \in 1..Len(consumed) :
               consumed[i].bitstream_serial_number
                   = consumed[1].bitstream_serial_number
        /\ state = "InStream" =>
               marker.bitstream_serial_number
                   = consumed[1].bitstream_serial_number

(* A data group of two pages was accepted after a header and a comment     *)
(* page.                                                                   *)
C3_Witness ==
    /\ Succeeded("next_packets")
    /\ Len(consumed) >= 4
    /\ GroupLen(prev.remaining) >= 2

(* C4 as stated: on a group that parses, next_packets fails with           *)
(* UnsupportedStream when the serial number of the group differs from the  *)
(* reader's, fails with InvalidOggStream("page sequence numbers are not    *)
(* sequential for data") when the first sequence number is not last_seq +  *)
(* 1, and succeeds only when both conditions hold.                         *)
C4_BothErrors ==
    NextPacketsOnGroup =>
        /\ ~SerialMatches => Failed("next_packets", "UnsupportedStream",
                                    SerialChangedMsg)
        /\ ~SequenceFollows => Failed("next_packets", "InvalidOggStream",
                                      SequenceMsg)
        /\ result.ok => SerialMatches /\ SequenceFollows

(* C4, amended: the serial number is compared first.  On a group that      *)
(* parses, next_packets fails with UnsupportedStream when the serial       *)
(* number differs, fails with InvalidOggStream("page sequence numbers are  *)
(* not sequential for data") when the serial number matches and the first  *)
(* sequence number is not last_seq + 1, and succeeds only when both        *)
(* conditions hold.                                                        *)
C4_SerialFirst ==
    NextPacketsOnGroup =>
        /\ ~SerialMatches => Failed("next_packets", "UnsupportedStream",
                                    SerialChangedMsg)
        /\ SerialMatches /\ ~SequenceFollows =>
               Failed("next_packets", "InvalidOggStream", SequenceMsg)
        /\ result.ok => SerialMatches /\ SequenceFollows

(* next_packets was called on a group of two pages that has the reader's   *)
(* serial number and does not follow by sequence number.                   *)
C4_Witness ==
    /\ NextPacketsOnGroup
    /\ GroupLen(prev.remaining) >= 2
    /\ SerialMatches /\ ~SequenceFollows
    /\ ~result.ok

(* C5: when next_packets returns Continued, the new InStream state keeps   *)
(* the serial number, its last sequence number is that of the last page of *)
(* the group just parsed, and its remaining input starts right after that  *)
(* page.                                                                   *)
C5_ContinuedState ==
    Succeeded("next_packets") /\ result.either = "Continued" =>
        /\ state = "InStream"
        /\ GroupLen(prev.remaining) > 0
        /\ marker.bitstream_serial_number = prev.marker.bitstream_serial_number
        /\ marker.page_sequence_number
               = LastOf(PageGroup(prev.remaining)).page_sequence_number
        /\ remaining = AfterGroup(prev.remaining)

(* Continued was returned for a group of two pages.                        *)
C5_Witness ==
    /\ Succeeded("next_packets") /\ result.either = "Continued"
    /\ GroupLen(prev.remaining) >= 2

(* C6: on an accepted ID header followed by a comment group that can be    *)
(* walked, read_header fails with UnsupportedStream when the serial number *)
(* of the comment group differs from that of the ID header page, and       *)
(* otherwise succeeds; a successful read_header leaves an InStream reader  *)
(* with the serial number of the ID header page, the sequence number of    *)
(* the last comment page, and the input right after the comment group.     *)
C6_CommentGroup ==
    /\ ReadHeaderOnValidHeader /\ GroupWalks(CommentInput) =>
           IF CommentInput[1].bitstream_serial_number
                  # HeaderPage.bitstream_serial_number
           THEN Failed("read_header", "UnsupportedStream", SerialChangedMsg)
           ELSE result.ok
    /\ Succeeded("read_header") =>
           /\ state = "InStream"
           /\ result.either = "Continued"
           /\ GroupWalks(CommentInput)
           /\ marker.bitstream_serial_number = HeaderPage.bitstream_serial_number
           /\ \A i \in 1..GroupLen(CommentInput) :
                  CommentInput[i].bitstream_serial_number
                      = HeaderPage.bitstream_serial_number
           /\ marker.page_sequence_number
                  = LastOf(PageGroup(CommentInput)).page_sequence_number
           /\ remaining = AfterGroup(CommentInput)

(* read_header succeeded over a comment group of two pages.                *)
C6_Witness ==
    /\ Succeeded("read_header")
    /\ GroupLen(CommentInput) >= 2

(* C7: read_header fails with InvalidOggStream("unexpected page sequence   *)
(* number in header") whenever the first page of the header group it       *)
(* parsed has a sequence number other than 0.                              *)
C7_HeaderSequenceZero ==
    /\ result.op = "read_header"
    /\ GroupParses(prev.remaining, HeaderBufferSize)
    /\ HeaderPage.page_sequence_number # 0
    => Failed("read_header", "InvalidOggStream",
              "unexpected page sequence number in header")

(* read_header was called on a header group that parses and starts with a  *)
(* sequence number other than 0.                                           *)
C7_Witness ==
    /\ result.op = "read_header"
    /\ GroupParses(prev.remaining, HeaderBufferSize)
    /\ HeaderPage.page_sequence_number # 0
    /\ ~result.ok

(* C8 as stated: when a second packet follows the ID header packet in the  *)
(* header group, read_header fails with InvalidOpusStream("unexpected      *)
(* segment after header"); a header group read_header accepts holds        *)
(* exactly one packet.                                                     *)
C8_SecondPacket ==
    /\ /\ ReadHeaderOnIdHeader
       /\ PacketCount(LaceValues(PageGroup(prev.remaining))) >= 2
       => Failed("read_header", "InvalidOpusStream",
                 "unexpected segment after header")
    /\ Succeeded("read_header") =>
           PacketCount(LaceValues(PageGroup(prev.remaining))) = 1

(* C8, amended: the version is checked first.  When a second packet        *)
(* follows an ID header packet of a version up to 15 in the header group,  *)
(* read_header fails with InvalidOpusStream("unexpected segment after      *)
(* header"); a header group read_header accepts holds exactly one packet.  *)
C8_OnePacket ==
    /\ /\ ReadHeaderOnIdHeader
       /\ HeaderPage.opus_version <= 15
       /\ PacketCount(LaceValues(PageGroup(prev.remaining))) >= 2
       => Failed("read_header", "InvalidOpusStream",
                 "unexpected segment after header")
    /\ Succeeded("read_header") =>
           PacketCount(LaceValues(PageGroup(prev.remaining))) = 1

(* read_header was called on a header page of two packets, the first an ID *)
(* header of a supported version.                                          *)
C8_Witness ==
    /\ ReadHeaderOnIdHeader
    /\ HeaderPage.opus_version <= 15
    /\ PacketCount(LaceValues(PageGroup(prev.remaining))) = 2
    /\ ~result.ok

(* C9: read_header fails with UnsupportedOpusVersion, which carries the    *)
(* version, if and only if the version byte of the ID header it parsed is  *)
(* greater than 15.                                                        *)
C9_VersionPolicy ==
    /\ ReadHeaderOnIdHeader =>
           /\ result.err.kind = "UnsupportedOpusVersion"
                  <=> HeaderPage.opus_version > 15
           /\ result.err.kind = "UnsupportedOpusVersion"
                  => result.err.a = HeaderPage.opus_version
    /\ result.op = "read_header" /\ result.err.kind = "UnsupportedOpusVersion"
           => ReadHeaderOnIdHeader

(* read_header rejected version 16.                                        *)
C9_Witness ==
    /\ ReadHeaderOnIdHeader
    /\ HeaderPage.opus_version = 16
    /\ result.err.kind = "UnsupportedOpusVersion"

(* C10: on an EndOfStream reader has_more is true exactly when input       *)
(* remains; next_reader yields a Beginning reader on exactly that input    *)
(* when it remains and nothing when it does not; a reader gets back to     *)
(* Beginning only through next_reader.                                     *)
C10_ChainedReader ==
    /\ result.op = "has_more" =>
           /\ prev.state = "EndOfStream"
           /\ result.value <=> prev.remaining # <<>>
           /\ state = "EndOfStream" /\ remaining = prev.remaining
    /\ result.op = "next_reader" =>
           /\ prev.state = "EndOfStream"
           /\ result.value <=> prev.remaining # <<>>
           /\ IF result.value
              THEN state = "Beginning" /\ remaining = prev.remaining
                   /\ marker = NoMarker /\ consumed = <<>>
              ELSE state = "Finished"
    /\ state = "Beginning" /\ result.op # "none" =>
           result.op = "next_reader" /\ result.value

(* next_reader yielded a reader on the rest of the input.                  *)
C10_Witness ==
    /\ result.op = "next_reader" /\ result.value
    /\ state = "Beginning"
    /\ remaining # <<>>

---------------------------------------------------------------------------
(* The container layer, stated on the input alone.                         *)

(* The input starts with a structurally valid page group: whole pages of   *)
(* version 0 up to one that ends at a packet boundary, consecutive         *)
(* sequence numbers, one serial number.                                    *)
GroupValid(input) ==
    /\ GroupWalks(input)
    /\ \A i \in 1..GroupLen(input) : input[i].version = 0

(* The largest reassembled packet of the group the input starts with.      *)
LargestPacket(input) ==
    CHOOSE m \in PacketSizes(LaceValues(PageGroup(input))) :
        \A x \in PacketSizes(LaceValues(PageGroup(input))) : x <= m

BufferTooSmall(N, needed) == Err("Ogg.BufferTooSmallError", N, needed, "")

(* C11: on every structurally valid page group, Packets::<N>::parse fails  *)
(* with BufferTooSmallError(N, max) if and only if max > N, where max is   *)
(* the size of the largest reassembled packet of the group; it fails in no *)
(* other way.                                                              *)
C11_BufferTooSmallIff ==
    call.op = "Packets::parse" /\ GroupValid(bitstream) =>
        IF LargestPacket(bitstream) > call.buffer_size
        THEN ~call.ok /\ call.err = BufferTooSmall(call.buffer_size,
                                                   LargestPacket(bitstream))
        ELSE call.ok

(* Packets::<512>::parse rejected a group of several pages whose largest   *)
(* packet lies across a page boundary.                                     *)
C11_Witness ==
    /\ call.op = "Packets::parse" /\ GroupValid(bitstream)
    /\ GroupLen(bitstream) >= 2
    /\ call.buffer_size = 512
    /\ call.err.kind = "Ogg.BufferTooSmallError"
    /\ \A i \in 1..GroupLen(bitstream) :
           SumSeq(bitstream[i].segment_table) < call.err.b

(* C12: after a successful Packets::<N>::parse, however often next is      *)
(* called, no call aborts (no copy leaves the scratch buffer or the page   *)
(* body, no unwrap and no assertion fails), no packet is longer than N,    *)
(* and while the current page ends in the middle of a packet a following   *)
(* page is left in the bounded view.                                       *)
C12_NextNeverAborts ==
    /\ call.op = "Packets::next" =>
           /\ call.kind \in {"Some", "None"}
           /\ Len(call.data) <= call.buffer_size
    /\ state = "Packets" =>
           /\ \A i \in 1..Len(delivered) :
                  Len(delivered[i]) <= packets.buffer_size
           /\ LastPacketContinues(packets.page) => packets.data # <<>>

(* next returned a packet that began on the first page and ended on the    *)
(* second, and filled more than half of the buffer.                        *)
C12_Witness ==
    /\ call.op = "Packets::next" /\ call.kind = "Some"
    /\ Len(bitstream) >= 2 /\ packets.page = bitstream[2]
    /\ Len(call.data) > SumSeq(bitstream[2].segment_table)
    /\ 2 * Len(call.data) > call.buffer_size

(* The lace fragments of a page body, one per lace value.                  *)
RECURSIVE PageFragments(_, _)
PageFragments(table, data) ==
    IF table = <<>> THEN <<>>
    ELSE <<Take(data, Head(table))>>
             \o PageFragments(Tail(table), Drop(data, Head(table)))

(* The lace fragments of the pages of a group, in the order of             *)
(* LaceValues.                                                             *)
RECURSIVE Fragments(_)
Fragments(pages) ==
    IF pages = <<>> THEN <<>>
    ELSE PageFragments(Head(pages).segment_table, PageData(Head(pages)))
             \o Fragments(Tail(pages))

RECURSIVE Concat(_)
Concat(seqs) == IF seqs = <<>> THEN <<>> ELSE Head(seqs) \o Concat(Tail(seqs))

(* The lace value the i-th packet of a lace sequence starts at.            *)
RECURSIVE PacketStart(_, _)
PacketStart(lace, i) ==
    IF i = 1 THEN 1 ELSE PacketEnd(lace, PacketStart(lace, i - 1)) + 1

(* The i-th packet of the group the input starts with: its lace fragments, *)
(* taken from the body of the page each lies on, one after the other.      *)
PacketFromFragments(input, i) ==
    LET lace == LaceValues(PageGroup(input))
        from == PacketStart(lace, i)
    IN  Concat(SubSeq(Fragments(PageGroup(input)), from, PacketEnd(lace, from)))

ParsedPackets == state = "Packets" \/ call.op = "Packets::next"

(* C13: every packet Packets::next returns is, byte for byte, the          *)
(* concatenation in order of the lace fragments of that packet, each taken *)
(* from the body of the page it lies on.                                   *)
C13_RoundTrip ==
    ParsedPackets =>
        /\ \A i \in 1..Len(delivered) :
               delivered[i] = PacketFromFragments(bitstream, i)
        /\ call.op = "Packets::next" /\ call.kind = "Some" =>
               call.data = delivered[Len(delivered)]

(* The second packet returned began behind the first packet on the first   *)
(* page and ended on the second page.                                      *)
C13_Witness ==
    /\ call.op = "Packets::next" /\ call.kind = "Some"
    /\ Len(delivered) = 2
    /\ Len(bitstream) >= 2 /\ packets.page = bitstream[2]
    /\ Len(bitstream[1].segment_table) = 2
    /\ Len(call.data) > ContinuedLace

(* The bodies of the pages of a group, one after the other.                *)
RECURSIVE Bodies(_)
Bodies(pages) ==
    IF pages = <<>> THEN <<>> ELSE PageData(Head(pages)) \o Bodies(Tail(pages))

(* C14: packets come in stream order.  For a group whose lace tables hold  *)
(* k values below 255, the first k calls of next return a packet each, the *)
(* i-th of the size of the i-th packet in page and lace order, so that the *)
(* packets returned so far make up the beginning of the page bodies and    *)
(* all k of them the whole; the call after them returns None.              *)
C14_StreamOrder ==
    ParsedPackets =>
        LET lace == LaceValues(PageGroup(bitstream))
            body == Bodies(PageGroup(bitstream))
            k == PacketCount(lace)
        IN  /\ Len(delivered) <= k
            /\ call.op = "Packets::next" =>
                   /\ call.kind \in {"Some", "None"}
                   /\ call.kind = "None" => Len(delivered) = k
            /\ \A i \in 1..Len(delivered) :
                   Len(delivered[i])
                       = SumSeq(SubSeq(lace, PacketStart(lace, i),
                                       PacketEnd(lace, PacketStart(lace, i))))
            /\ Concat(delivered) = Take(body, Len(Concat(delivered)))
            /\ Len(delivered) = k => Concat(delivered) = body

(* next returned None behind the third packet of a group of several pages. *)
C14_Witness ==
    /\ call.op = "Packets::next" /\ call.kind = "None"
    /\ Len(delivered) >= 3
    /\ GroupLen(bitstream) >= 2

(* C15: from the construction of a Packets value on, before any packet is  *)
(* taken, between the packets and when next has returned None,             *)
(* end_of_stream() is the EOS flag of the final page of the group.         *)
C15_EndOfStreamOfFinalPage ==
    state = "Packets" =>
        (EndOfStream(packets) <=> CarriesEos(LastOf(PageGroup(bitstream))))

(* C16: Page::skip walks on exactly while the last lace value of the page  *)
(* it stands on is 255: a structurally valid group is walked to its end,   *)
(* and a successful call returns the first page of the input whose last    *)
(* lace value is below 255, with the input that follows that page.         *)
C16_SkipToBoundary ==
    call.op = "Page::skip" =>
        /\ GroupValid(bitstream) => call.ok
        /\ call.ok =>
               /\ GroupLen(bitstream) > 0
               /\ call.page = bitstream[GroupLen(bitstream)]
               /\ call.remaining = AfterGroup(bitstream)

(* Page::skip walked a group of three pages and left the page behind it.   *)
C16_Witness ==
    /\ call.op = "Page::skip" /\ call.ok
    /\ GroupLen(bitstream) = 3
    /\ call.page = bitstream[3]
    /\ call.remaining = <<TrailingPage>>

(* The walk over the pages of a group gets to page j of the input: the     *)
(* pages before it are of version 0 and end in the middle of a packet,     *)
(* those behind the first follow by sequence number and keep the serial    *)
(* number, and page j is of version 0.                                     *)
WalkReaches(input, j) ==
    /\ j \in 1..Len(input)
    /\ input[j].version = 0
    /\ \A i \in 1..(j - 1) :
           /\ input[i].version = 0
           /\ ~EndsAtBoundary(input[i])
           /\ i > 1 =>
                  /\ input[i].page_sequence_number
                         = input[i - 1].page_sequence_number + 1
                  /\ input[i].bitstream_serial_number
                         = input[1].bitstream_serial_number

(* Page j is reached from the page before it and does not follow it by     *)
(* sequence number.                                                        *)
SequenceBreak(input, j) ==
    /\ j >= 2 /\ WalkReaches(input, j)
    /\ input[j].page_sequence_number # input[j - 1].page_sequence_number + 1

SequenceNumberMismatch(a, b) ==
    Err("Ogg.InvalidStream", a, b, "SequenceNumberMismatch")

WalkCall == call.op \in {"Page::skip", "Packets::parse"}

(* C17 as stated: when a page the walk reaches does not follow the page    *)
(* before it by sequence number, the walk fails with                       *)
(* InvalidStream(SequenceNumberMismatch(expected, got)), expected being    *)
(* the sequence number of the page before plus one and got the sequence    *)
(* number found.                                                           *)
C17_ExpectedAndGot ==
    WalkCall =>
        \A j \in 2..Len(bitstream) :
            SequenceBreak(bitstream, j) =>
                /\ ~call.ok
                /\ call.err = SequenceNumberMismatch(
                                  bitstream[j - 1].page_sequence_number + 1,
                                  bitstream[j].page_sequence_number)

(* C17, amended: the error carries the sequence number of the page before, *)
(* not that number plus one.  When a page the walk reaches does not follow *)
(* the page before it by sequence number, the walk fails with              *)
(* InvalidStream(SequenceNumberMismatch(previous, got)), previous being    *)
(* the sequence number of the page before and got the sequence number      *)
(* found.                                                                  *)
C17_PreviousAndGot ==
    WalkCall =>
        \A j \in 2..Len(bitstream) :
            SequenceBreak(bitstream, j) =>
                /\ ~call.ok
                /\ call.err = SequenceNumberMismatch(
                                  bitstream[j - 1].page_sequence_number,
                                  bitstream[j].page_sequence_number)

(* Page::skip failed on the third page of the input, which repeats the     *)
(* sequence number of the second.                                          *)
C17_Witness ==
    /\ call.op = "Page::skip"
    /\ SequenceBreak(bitstream, 3)
    /\ bitstream[3].page_sequence_number = bitstream[2].page_sequence_number
    /\ call.err.kind = "Ogg.InvalidStream"

SerialBreak(input, j) ==
    /\ j >= 2 /\ WalkReaches(input, j)
    /\ input[j].bitstream_serial_number # input[1].bitstream_serial_number

SerialChanged == Err("Ogg.UnsupportedStream", 0, 0, SerialChangedMsg)

UnsupportedVersion(v) == Err("Ogg.UnsupportedVersion", v, 0, "")

(* C20: Page::parse rejects every page whose version byte v is not 0 with  *)
(* UnsupportedVersion(v), and no page a container function returns or      *)
(* keeps has a version other than 0.                                       *)
C20_VersionZeroOnly ==
    /\ call.op = "Page::parse" /\ bitstream # <<>> =>
           IF bitstream[1].version # 0
           THEN ~call.ok /\ call.err = UnsupportedVersion(bitstream[1].version)
           ELSE call.ok /\ call.page = bitstream[1]
    /\ call.ok => call.page.version = 0
    /\ packets.page.version = 0
    /\ \A j \in 1..Len(bitstream) :
           WalkCall /\ bitstream[j].version # 0
                    /\ (j > 1 => /\ WalkReaches(bitstream, j - 1)
                                 /\ ~SequenceBreak(bitstream, j - 1)
                                 /\ ~SerialBreak(bitstream, j - 1)
                                 /\ ~EndsAtBoundary(bitstream[j - 1]))
               => ~call.ok /\ call.err = UnsupportedVersion(bitstream[j].version)

(* Page::parse rejected a page of version 255.                             *)
C20_Witness ==
    /\ call.op = "Page::parse"
    /\ bitstream # <<>> /\ bitstream[1].version = 255
    /\ call.err = UnsupportedVersion(255)

---------------------------------------------------------------------------
(* One page as bytes, stated on the input alone.                           *)

PageReturned == state \in {"Page", "Segments"}

(* Length of the fixed part of a page header, lace count included.         *)
FixedHeaderLen == 27

(* C21: every Page returned by Page::parse has a body as long as the sum   *)
(* of its lace bytes, and the input is the 27-byte header, the lace table, *)
(* that body and the returned remainder, one after the other; the          *)
(* remainder is empty when the input is exactly one page.                  *)
C21_BodyAndRemainder ==
    PageReturned =>
        LET table == call.header.segment_table
        IN  /\ Len(call.data) = SumSeq(table)
            /\ Len(bitstream) >= FixedHeaderLen
            /\ bitstream[FixedHeaderLen] = Len(table)
            /\ bitstream = Take(bitstream, FixedHeaderLen) \o table
                               \o call.data \o call.remaining
            /\ Len(bitstream) = FixedHeaderLen + Len(table) + SumSeq(table)
                   => call.remaining = <<>>

(* Page::parse returned a page of several lace values, one of them 255,    *)
(* and the three bytes behind it.                                          *)
C21_Witness ==
    /\ state = "Page"
    /\ Len(call.header.segment_table) >= 2
    /\ Len(call.data) > ContinuedLace
    /\ call.remaining = <<7, 7, 7>>

(* Number of fragments of a lace table: one per lace value below 255, and  *)
(* one more when the table ends on 255.                                    *)
FragmentCount(lace) ==
    PacketCount(lace)
        + (IF lace # <<>> /\ lace[Len(lace)] = ContinuedLace THEN 1 ELSE 0)

(* The i-th fragment of a lace table as a segment.                         *)
ExpectedSegment(lace, i) ==
    LET from == PacketStart(lace, i)
        to == PacketEnd(lace, from)
    IN  [before |-> SumSeq(SubSeq(lace, 1, from - 1)),
         size |-> SumSeq(SubSeq(lace, from, to)),
         complete |-> lace[to] < ContinuedLace]

RECURSIVE SizesSum(_)
SizesSum(segments) ==
    IF segments = <<>> THEN 0 ELSE Head(segments).size + SizesSum(Tail(segments))

(* C22: for every lace table the segment iterator yields one segment per   *)
(* packet fragment, complete exactly when the fragment ends with a lace    *)
(* byte below 255; at most one segment is incomplete, it is the last item  *)
(* and the table then ends on 255; before is the sum of the sizes of the   *)
(* earlier segments, and when the iterator has ended the sizes sum to the  *)
(* sum of the lace bytes.                                                  *)
C22_SegmentIterator ==
    state = "Segments" =>
        LET lace == call.header.segment_table
        IN  /\ Len(delivered) <= FragmentCount(lace)
            /\ \A i \in 1..Len(delivered) :
                   /\ delivered[i] = ExpectedSegment(lace, i)
                   /\ delivered[i].before = SizesSum(Take(delivered, i - 1))
                   /\ ~delivered[i].complete =>
                          /\ i = FragmentCount(lace)
                          /\ lace[Len(lace)] = ContinuedLace
            /\ call.op = "segments.next" /\ call.kind = "None" =>
                   /\ Len(delivered) = FragmentCount(lace)
                   /\ SizesSum(delivered) = SumSeq(lace)
            /\ call.op = "segments.next" /\ call.kind = "Some" =>
                   call.segment = delivered[Len(delivered)]

(* The iterator ended behind a complete segment and an incomplete one of   *)
(* two lace bytes.                                                         *)
C22_Witness ==
    /\ state = "Segments"
    /\ call.op = "segments.next" /\ call.kind = "None"
    /\ Len(delivered) = 2
    /\ delivered[1].complete /\ ~delivered[2].complete
    /\ delivered[2].size = 2 * ContinuedLace

---------------------------------------------------------------------------
(* Claims about the Opus layer, checked under SpecOpus.                    *)

(* The last call was ChannelMappingTable::parse and it read both counts.   *)
TableParsed ==
    /\ call.op = "ChannelMappingTable::parse"
    /\ Len(bitstream) >= 21

(* What the table parser was given: the two counts, the bytes behind them, *)
(* the channel count of the header and the capacity.                       *)
TableN == bitstream[20]

TableC == bitstream[21]

TableRest == Drop(bitstream, 21)

(* The checks of the table parser in the order the specification lists     *)
(* them, each with the condition under which it fails.                     *)
TableChecks ==
    << [msg |-> "TotalStreamCountExceeds", fails |-> TableN + TableC > 255],
       [msg |-> "ZeroStreamCount", fails |-> TableN = 0],
       [msg |-> "StreamCountsMismatch", fails |-> TableC > TableN],
       [msg |-> "BadTableLength", fails |-> Len(TableRest) # call.channel],
       [msg |-> "TableTooBig", fails |-> call.channel > call.max_channels],
       [msg |-> "InvalidChannelIndex",
        fails |-> \E i \in 1..Len(TableRest) :
                     TableRest[i] # 255 /\ TableRest[i] >= TableN + TableC] >>

FailingChecks == { k \in 1..Len(TableChecks) : TableChecks[k].fails }

(* C23: the channel-mapping table parser reports the error of the first   *)
(* failing check in the order TotalStreamCountExceeds, ZeroStreamCount,    *)
(* StreamCountsMismatch, BadTableLength, TableTooBig, InvalidChannelIndex, *)
(* and succeeds when no check fails.                                       *)
C23_FirstFailingCheck ==
    TableParsed =>
        IF FailingChecks = {} THEN call.ok
        ELSE /\ ~call.ok
             /\ call.err.kind = "Opus.InvalidStream"
             /\ \E k \in FailingChecks :
                   /\ \A j \in FailingChecks : k <= j
                   /\ call.err.msg = TableChecks[k].msg

(* A table that fails three checks at once, the first of them reported.    *)
C23_Witness ==
    /\ TableParsed
    /\ {3, 4, 6} \subseteq FailingChecks
    /\ call.err.msg = "StreamCountsMismatch"

(* The table of the last successful call, its capacity and the channel     *)
(* count it was parsed for: the table ChannelMappingTable::parse returned, *)
(* or the table of the header OpusHeader::parse returned.                  *)
HasTable ==
    /\ call.ok
    /\ \/ call.op = "ChannelMappingTable::parse"
       \/ /\ call.op \in {"OpusHeader::parse", "get_mapping"}
          /\ call.opus.family \in {"Family1", "Family255", "Reserved"}

ReturnedTable ==
    IF call.op = "ChannelMappingTable::parse" THEN call.table ELSE call.opus.table

TableCapacity ==
    IF call.op = "ChannelMappingTable::parse" THEN call.max_channels
    ELSE IF call.opus.family = "Family1" THEN Family1MaxChannels
    ELSE Family255MaxChannels

TableChannels ==
    IF call.op = "ChannelMappingTable::parse" THEN bitstream[10]
    ELSE call.opus.channels

(* C24: every table returned by a successful parse has stream_count >= 1, *)
(* coupled_count <= stream_count, stream_count + coupled_count <= 255, and *)
(* each of its first `channels` mapping bytes is 255 or below              *)
(* stream_count + coupled_count.                                           *)
C24_TableInvariant ==
    HasTable =>
        /\ ReturnedTable.stream_count >= 1
        /\ ReturnedTable.coupled_count <= ReturnedTable.stream_count
        /\ ReturnedTable.stream_count + ReturnedTable.coupled_count <= 255
        /\ \A c \in 0..(TableChannels - 1) :
              \/ MappingAt(ReturnedTable, c, TableCapacity) = 255
              \/ /\ MappingAt(ReturnedTable, c, TableCapacity) >= 0
                 /\ MappingAt(ReturnedTable, c, TableCapacity)
                      < ReturnedTable.stream_count + ReturnedTable.coupled_count

(* A returned table of 255 mapping bytes with 128 streams, 127 of them     *)
(* coupled, that names the stream index 254.                               *)
C24_Witness ==
    /\ HasTable
    /\ TableChannels = 255
    /\ ReturnedTable.stream_count + ReturnedTable.coupled_count = 255
    /\ \E c \in 0..254 : MappingAt(ReturnedTable, c, TableCapacity) = 254

(* OpusHeader::parse was called on bytes that hold the tag and every fixed *)
(* field, the family byte included.                                        *)
HeaderParsed ==
    /\ call.op = "OpusHeader::parse"
    /\ Len(bitstream) >= 19
    /\ Take(bitstream, Len(OpusHeadTag)) = OpusHeadTag

HeaderChannels == bitstream[10]

HeaderFamily == bitstream[19]

BadNumberOfChannels(family, channels) ==
    /\ ~call.ok
    /\ call.err = Err("Opus.InvalidStream", family, channels, "BadNumberOfChannels")

(* C25: OpusHeader::parse accepts family 0 only with 1 or 2 channels and   *)
(* family 1 only with 1 to 8 channels; any other channel count c of family *)
(* f in {0, 1} fails with InvalidStream(BadNumberOfChannels(f, c)),        *)
(* whatever the bytes of the mapping table are.                            *)
C25_ChannelCountFirst ==
    HeaderParsed /\ HeaderFamily \in {0, 1} =>
        /\ call.ok => HeaderChannels \in 1..(IF HeaderFamily = 0 THEN 2 ELSE 8)
        /\ HeaderChannels \notin 1..(IF HeaderFamily = 0 THEN 2 ELSE 8)
              => BadNumberOfChannels(HeaderFamily, HeaderChannels)

(* A family 1 header of nine channels whose table the table parser         *)
(* rejects, refused for its channel count.                                 *)
C25_Witness ==
    /\ HeaderParsed
    /\ HeaderFamily = 1
    /\ HeaderChannels = 9
    /\ ~ChannelMappingTableParse(Drop(bitstream, 19), 9, Family1MaxChannels).ok
    /\ BadNumberOfChannels(1, 9)

(* What ChannelMappingTable::<255>::parse makes of the bytes behind the    *)
(* family byte.                                                            *)
Table255 ==
    ChannelMappingTableParse(Drop(bitstream, 19), HeaderChannels,
                             Family255MaxChannels)

(* C26: built without the family255 feature, OpusHeader::parse fails with  *)
(* UnsupportedStream("family 255 channel mapping is not supported") for    *)
(* every family other than 0 and 1; built with it, family 255 yields       *)
(* Family255 and every other family Reserved, each with the table that the *)
(* table parser of capacity 255 returns, and fails with that parser's      *)
(* error when it returns none.                                             *)
C26_OtherFamilies ==
    HeaderParsed /\ HeaderFamily \notin {0, 1} =>
        IF ~call.family255
        THEN /\ ~call.ok
             /\ call.err = Err("Opus.UnsupportedStream", 0, 0,
                               "family 255 channel mapping is not supported")
        ELSE /\ call.ok = Table255.ok
             /\ call.err = Table255.err
             /\ call.ok =>
                   /\ call.opus.family =
                        (IF HeaderFamily = 255 THEN "Family255" ELSE "Reserved")
                   /\ call.opus.channels = HeaderChannels
                   /\ call.opus.table = Table255.table

(* A reserved family with nine channels, more than the table of family 1   *)
(* can hold, returned as Reserved.                                         *)
C26_Witness ==
    /\ HeaderParsed
    /\ call.family255
    /\ HeaderFamily \in 2..254
    /\ HeaderChannels = 9
    /\ call.ok
    /\ call.opus.family = "Reserved"
    /\ Len(call.opus.table.mapping) = 9

(* C27: built with the family255 feature, OpusHeader::parse returns a      *)
(* family 255 header only when its channel count is in 1..255; a family    *)
(* 255 header with channel count 0 is rejected.                            *)
C27_Family255ChannelCount ==
    HeaderParsed /\ call.family255 /\ HeaderFamily = 255 /\ call.ok
        => HeaderChannels \in 1..255

(* OpusHeader::parse has returned a header, whose ChannelMapping is the    *)
(* family, channel count and table of call.opus.                           *)
HeaderReturned ==
    /\ state = "Header"
    /\ call.ok
    /\ call.opus.family \in {"Family0", "Family1", "Family255", "Reserved"}

(* C28: for every ChannelMapping produced by OpusHeader::parse and every   *)
(* channel index c in 0..255, get_mapping(c) is Some if c is below the     *)
(* channel count and None otherwise.                                       *)
C28_SomeIffInRange ==
    HeaderReturned =>
        /\ \A c \in 0..255 :
              GetMapping(call.opus, c).kind =
                  (IF c < call.opus.channels THEN "Some" ELSE "None")
        /\ call.op = "get_mapping" =>
              call.mapping.kind =
                  (IF call.channel < call.opus.channels THEN "Some" ELSE "None")

(* get_mapping called on a Reserved mapping of several channels with the   *)
(* first index that is no channel.                                         *)
C28_Witness ==
    /\ HeaderReturned
    /\ call.op = "get_mapping"
    /\ call.opus.family = "Reserved"
    /\ call.opus.channels > 1
    /\ call.channel = call.opus.channels
    /\ call.mapping.kind = "None"
    /\ GetMapping(call.opus, call.channel - 1).kind = "Some"

(* The table entry and the coupled count get_mapping works with: for       *)
(* family 0 the channel itself and the channel count less one, for the     *)
(* other families the mapping byte of the channel and the coupled count of *)
(* the table.                                                              *)
TableEntry(h, c) ==
    IF h.family = "Family0" THEN c ELSE h.table.mapping[c + 1]

CoupledCount(h) ==
    IF h.family = "Family0" THEN h.channels - 1 ELSE h.table.coupled_count

(* The stream the rule gives for table entry i and coupled count C.        *)
StreamRule(i, C) ==
    IF i = 255 THEN NoStream
    ELSE IF i < 2 * C
    THEN [some |-> TRUE, index |-> i \div 2,
          channel |-> IF i % 2 = 0 THEN "Left" ELSE "Right"]
    ELSE [some |-> TRUE, index |-> i - C, channel |-> "Mono"]

(* C29: for a channel in range with table entry i and coupled count C,     *)
(* get_mapping returns no stream when i = 255, otherwise the stereo stream *)
(* i / 2 with Left for even i and Right for odd i when i < 2 * C, and      *)
(* otherwise the mono stream i - C.                                        *)
C29_StreamIndexRule ==
    HeaderReturned =>
        /\ \A c \in 0..(call.opus.channels - 1) :
              /\ GetMapping(call.opus, c).kind = "Some"
              /\ GetMapping(call.opus, c).stream =
                    StreamRule(TableEntry(call.opus, c), CoupledCount(call.opus))
        /\ call.op = "get_mapping" /\ call.channel < call.opus.channels =>
              call.mapping.stream =
                  StreamRule(TableEntry(call.opus, call.channel),
                             CoupledCount(call.opus))

(* get_mapping returned the right channel of the second stereo stream, and *)
(* other channels of the same header are a mono stream behind the coupled  *)
(* ones and a silent channel.                                              *)
C29_Witness ==
    /\ HeaderReturned
    /\ call.op = "get_mapping"
    /\ call.mapping.stream = [some |-> TRUE, index |-> 1, channel |-> "Right"]
    /\ \E c \in 0..(call.opus.channels - 1) :
          /\ GetMapping(call.opus, c).stream.channel = "Mono"
          /\ GetMapping(call.opus, c).stream.index >= CoupledCount(call.opus)
          /\ CoupledCount(call.opus) > 0

(* The Vorbis channel order for 1 to 8 channels.                           *)
VorbisOrder ==
    << <<"Mono">>,
       <<"Left", "Right">>,
       <<"Left", "Center", "Right">>,
       <<"Left", "Right", "RearLeft", "RearRight">>,
       <<"Left", "Center", "Right", "RearLeft", "RearRight">>,
       <<"Left", "Center", "Right", "RearLeft", "RearRight", "LFE">>,
       <<"Left", "Center", "Right", "SideLeft", "SideRight", "RearCenter",
         "LFE">>,
       <<"Left", "Center", "Right", "SideLeft", "SideRight", "RearLeft",
         "RearRight", "LFE">> >>

(* The speaker location the specification gives channel c of header h.     *)
SpeakerOf(h, c) ==
    IF h.family = "Family1" THEN VorbisOrder[h.channels][c + 1]
    ELSE IF h.family = "Family0"
    THEN (IF h.channels = 1 THEN "Mono" ELSE <<"Left", "Right">>[c + 1])
    ELSE "None"

(* C30: for family 1 with n channels and a channel c below n, the speaker  *)
(* location get_mapping returns is entry c of the Vorbis order for n       *)
(* channels; for family 0 it is Mono (one channel) or Left and Right (two  *)
(* channels); for family 255 and Reserved it is None.                      *)
C30_SpeakerLocations ==
    HeaderReturned =>
        /\ \A c \in 0..(call.opus.channels - 1) :
              /\ GetMapping(call.opus, c).kind = "Some"
              /\ GetMapping(call.opus, c).speaker_location = SpeakerOf(call.opus, c)
        /\ call.op = "get_mapping" /\ call.channel < call.opus.channels =>
              call.mapping.speaker_location = SpeakerOf(call.opus, call.channel)

(* get_mapping returned the rear center speaker, which only the order of   *)
(* seven channels has.                                                     *)
C30_Witness ==
    /\ HeaderReturned
    /\ call.op = "get_mapping"
    /\ call.opus.family = "Family1"
    /\ call.opus.channels = 7
    /\ call.channel = 5
    /\ call.mapping.speaker_location = "RearCenter"
---------------------------------------------------------------------------
(* Errors of both layers.                                                  *)

Promoted == state = "Promoted"

(* C31: when a container or Opus error is promoted to the combined error,  *)
(* OggError::UnsupportedStream and OpusError::UnsupportedStream both       *)
(* become the combined UnsupportedStream with the same text,               *)
(* OpusError::NotOpusStream becomes the combined NotOpusStream, and every  *)
(* other error is wrapped unchanged as OggError(..) or OpusError(..).      *)
C31_ErrorPromotion ==
    Promoted =>
        IF call.err.kind \in {"Ogg.UnsupportedStream", "Opus.UnsupportedStream"}
        THEN call.promoted = Err("UnsupportedStream", 0, 0, call.err.msg)
        ELSE IF call.err.kind = "Opus.NotOpusStream"
        THEN call.promoted.kind = "NotOpusStream"
        ELSE IF call.err.kind \in OpusKinds
        THEN call.promoted = Wrapped("OpusError", call.err)
        ELSE call.promoted = Wrapped("OggError", call.err)

(* The part of C31 on container errors, and on the Opus errors other than  *)
(* UnsupportedStream and NotOpusStream.                                    *)
PromotionOfOtherErrors ==
    Promoted /\ call.err.kind \notin {"Opus.UnsupportedStream",
                                      "Opus.NotOpusStream"}
        => C31_ErrorPromotion

(* The input of the call: the bytes from call.offset on.                   *)
CallInput == Drop(bitstream, call.offset)

(* A byte of the input differs from the byte of the pattern at its place.  *)
TagMismatch(input, pattern) ==
    \E i \in 1..Len(pattern) : i <= Len(input) /\ input[i] # pattern[i]

(* C32: a mismatch of the "OggS" capture pattern yields NotOggStream, and  *)
(* one of "OpusHead" yields NotOpusStream, at the start of the file; a     *)
(* capture pattern mismatch at a later page of the input yields a generic  *)
(* parse error instead.                                                    *)
C32_CaptureMismatch ==
    /\ call.op = "Page::parse" /\ TagMismatch(CallInput, OggSTag)
           => /\ ~call.ok
              /\ call.err.kind = IF call.offset = 0 THEN "Ogg.NotOggStream"
                                 ELSE "Ogg.ParsingError"
    /\ call.op = "OpusHeader::parse" /\ TagMismatch(CallInput, OpusHeadTag)
           => ~call.ok /\ call.err.kind = "Opus.NotOpusStream"

(* The part of C32 on the start of the file.                               *)
MismatchAtStart == call.offset = 0 => C32_CaptureMismatch

(* What the code does at a later page: NotOggStream again.                 *)
MismatchAtLaterPage ==
    call.op = "Page::parse" /\ call.offset > 0
                           /\ TagMismatch(CallInput, OggSTag)
        => ~call.ok /\ call.err = Err("Ogg.NotOggStream", 0, 0, "")

(* Where the fixed-width integer fields end: version, flags, granule        *)
(* position, serial number, sequence number, checksum and lace count of a  *)
(* page header; version, channel count, pre-skip, sample rate, output gain *)
(* and family of an ID header, and the two stream counts of its table.     *)
PageFieldEnds == {5, 6, 14, 18, 22, 26, 27}

HeadFieldEnds == {9, 10, 12, 16, 18, 19, 20, 21}

(* Bytes missing from the field an input of len bytes ends in or before.   *)
MissingFrom(ends, len) ==
    (CHOOSE e \in ends : e > len /\ \A f \in ends : f > len => e <= f) - len

(* The input starts as a page does and ends before the page is complete:   *)
(* in the header, in the lace table or in the body.                        *)
ShortPage(input) ==
    /\ ~TagMismatch(input, OggSTag)
    /\ \/ Len(input) < FixedHeaderLen
       \/ Len(input) < FixedHeaderLen + input[FixedHeaderLen]
       \/ Len(input) < FixedHeaderLen + input[FixedHeaderLen]
              + SumSeq(SubSeq(input, FixedHeaderLen + 1,
                              FixedHeaderLen + input[FixedHeaderLen]))

(* The input starts as an ID header does and ends before the header is     *)
(* complete: in the fixed part or, for a family with a table, in the table *)
(* of the two counts and one byte for each channel.                        *)
ShortHeader(input, family255) ==
    /\ ~TagMismatch(input, OpusHeadTag)
    /\ \/ Len(input) < 19
       \/ /\ input[19] = 1 \/ (family255 /\ input[19] # 0)
          /\ Len(input) < 21 + input[10]

(* C33: input that ends before a page or header is complete yields an      *)
(* end-of-stream error, never a successful parse; when it ends inside a    *)
(* fixed-width integer field the error is EndOfStreamError(Some(k)), k > 0 *)
(* the number of bytes missing from that field, and when it ends inside    *)
(* the lace table or the page body it is EndOfStreamError(None).           *)
C33_ShortInput ==
    /\ call.op = "Page::parse" /\ ShortPage(CallInput)
           => /\ ~call.ok
              /\ call.err.kind = "Ogg.EndOfStreamError"
              /\ Len(CallInput) < FixedHeaderLen
                    => call.err = OggNeeded(MissingFrom(PageFieldEnds,
                                                        Len(CallInput)))
              /\ Len(CallInput) >= FixedHeaderLen => call.err = OggEof
    /\ call.op = "OpusHeader::parse" /\ ShortHeader(bitstream, call.family255)
           => /\ ~call.ok
              /\ call.err.kind = "Opus.EndOfStreamError"
              /\ Len(bitstream) < 21
                    => call.err.a = MissingFrom(HeadFieldEnds, Len(bitstream))

(* What the code does on such input.  Behind a whole capture pattern, the  *)
(* fields of the page header and of the fixed part of the ID header give   *)
(* Some(k), the lace table gives None, and so does the body of a page of   *)
(* version 0.                                                              *)
ShortBehindPattern ==
    /\ call.op = "Page::parse" /\ ShortPage(CallInput) /\ Len(CallInput) >= 4
           => /\ ~call.ok
              /\ Len(CallInput) < FixedHeaderLen
                    => call.err = OggNeeded(MissingFrom(PageFieldEnds,
                                                        Len(CallInput)))
              /\ Len(CallInput) >= FixedHeaderLen
                    => IF Len(CallInput) >= FixedHeaderLen
                                              + CallInput[FixedHeaderLen]
                          /\ CallInput[5] # 0
                       THEN call.err = Err("Ogg.UnsupportedVersion",
                                           CallInput[5], 0, "")
                       ELSE call.err = OggEof
    /\ call.op = "OpusHeader::parse" /\ ShortHeader(bitstream, call.family255)
           => /\ ~call.ok
              /\ Len(bitstream) \in 8..18
                    => call.err = Err("Opus.EndOfStreamError",
                                      MissingFrom(HeadFieldEnds, Len(bitstream)),
                                      0, "")

(* Inside the capture pattern the error is NotOggStream or NotOpusStream.  *)
ShortInsidePattern ==
    /\ call.op = "Page::parse" /\ ShortPage(CallInput) /\ Len(CallInput) < 4
           => call.err = Err("Ogg.NotOggStream", 0, 0, "")
    /\ call.op = "OpusHeader::parse" /\ Len(bitstream) < 8
                                     /\ ShortHeader(bitstream, call.family255)
           => call.err = Err("Opus.NotOpusStream", 0, 0, "")

---------------------------------------------------------------------------
(* The reader on whole streams, continued.                                 *)

(* The operation failed in Packets::parse because a packet does not fit    *)
(* the scratch buffer.                                                     *)
FailedBufferCheck ==
    /\ ~result.ok
    /\ result.err.kind = "OggError"
    /\ result.err.msg = "Ogg.BufferTooSmallError"

(* C34: read_header reassembles the ID header through a scratch buffer of  *)
(* 30 bytes: on a header page group whose packets are at most 30 bytes the *)
(* buffer check passes, and on one with a packet larger than 30 bytes      *)
(* read_header fails with BufferTooSmall(30, size).                        *)
C34_HeaderBuffer ==
    result.op = "read_header" /\ GroupValid(prev.remaining) =>
        IF LargestPacket(prev.remaining) <= 30
        THEN ~FailedBufferCheck
        ELSE /\ ~result.ok
             /\ result.err
                   = Wrapped("OggError",
                             BufferTooSmall(30, LargestPacket(prev.remaining)))

(* What the code does: the same with a buffer of HeaderBufferSize bytes.   *)
HeaderBufferInCode ==
    result.op = "read_header" /\ GroupValid(prev.remaining) =>
        IF LargestPacket(prev.remaining) <= HeaderBufferSize
        THEN ~FailedBufferCheck
        ELSE /\ ~result.ok
             /\ result.err
                   = Wrapped("OggError",
                             BufferTooSmall(HeaderBufferSize,
                                            LargestPacket(prev.remaining)))

(* read_header refused an ID header packet of 29 bytes.                    *)
HeaderOf29Refused ==
    /\ result.op = "read_header" /\ GroupValid(prev.remaining)
    /\ LargestPacket(prev.remaining) = 29
    /\ result.err = Wrapped("OggError", BufferTooSmall(HeaderBufferSize, 29))

(* One sequence is what is left of the other behind some of its pages.     *)
IsSuffix(s, t) == \E k \in 0..Len(t) : s = Drop(t, k)

(* The decode loop is through: next_packets failed or returned Ended.      *)
DriverDone ==
    result.op = "next_packets" /\ (~result.ok \/ result.either = "Ended")

(* C36: the remaining input of every reader is a suffix of the bitstream;  *)
(* each successful read_header and next_packets returns a reader whose     *)
(* remaining input is strictly shorter than that of the reader it was      *)
(* called on; and a driver that keeps calling next_packets on the          *)
(* Continued reader it gets eventually obtains Ended or an error.          *)
C36_Progress ==
    /\ [](IsSuffix(remaining, bitstream) /\ IsSuffix(prev.remaining, bitstream))
    /\ [](StreamStep => Len(remaining) < Len(prev.remaining))
    /\ (state = "InStream" ~> DriverDone)

(* The driver got Continued for a first page group and then Ended for a    *)
(* second one, at the end of the input.                                    *)
C36_Witness ==
    /\ Succeeded("next_packets") /\ result.either = "Ended"
    /\ GroupLen(prev.remaining) = 1
    /\ Len(consumed) >= 4
    /\ remaining = <<>>

(* next_packets called once more on the reader the last call was made on,  *)
(* with the same BUFFER_SIZE.                                              *)
NextPacketsAgain ==
    NextPacketsOp(prev.remaining, prev.marker, result.buffer_size)

---------------------------------------------------------------------------
(* Sequence numbers at the upper bound, checked under SpecOverflow.        *)

Overflowed ==
    \/ call.op \in {"Page::skip", "Packets::parse"} /\ call.err = AddOverflow
    \/ result.op = "next_packets" /\ result.err = AddOverflow

(* C40: the successor of a 32-bit sequence number is well defined at the   *)
(* upper bound: when the previous page, or the last_seq of the reader,     *)
(* which read_header takes from the comment page as it is, has the         *)
(* sequence number 2^32 - 1, Page::skip, Packets::parse and next_packets   *)
(* return a success or an error value; none of them ends in an arithmetic  *)
(* overflow.                                                               *)
C40_SuccessorAtUpperBound == ~Overflowed

(* The walk reached a page behind one of the largest sequence number: the  *)
(* first page of the input carries it and its last packet continues, and   *)
(* the input has a second page.                                            *)
WalkFromMax ==
    /\ call.op \in {"Page::skip", "Packets::parse"}
    /\ Len(bitstream) >= 2
    /\ bitstream[1].page_sequence_number = U32Max
    /\ LastPacketContinues(bitstream[1])

(* What the two builds do in the walk: with overflow checks the call       *)
(* aborts; without, the successor is 0, so a second page numbered 0 is     *)
(* taken for the next one and any other number is a mismatch.              *)
WalkAtUpperBound ==
    WalkFromMax =>
        IF call.overflow_checks THEN call.err = AddOverflow
        ELSE IF bitstream[2].page_sequence_number = 0
        THEN call.err.msg # "SequenceNumberMismatch" \/ call.err.a # U32Max
        ELSE call.err
                 = SequenceNumberMismatch(U32Max,
                                          bitstream[2].page_sequence_number)

(* next_packets was called on a reader whose last sequence number is the   *)
(* largest, on an input that starts with a whole page group.               *)
ReaderAtMax ==
    /\ result.op = "next_packets"
    /\ prev.marker.page_sequence_number = U32Max
    /\ PacketsParse(prev.remaining, result.buffer_size).ok

(* What the two builds do in next_packets: with overflow checks the call   *)
(* aborts; without, a group that starts at 0 is the next one and any other *)
(* group is out of sequence.                                               *)
ReaderAtUpperBound ==
    ReaderAtMax =>
        IF call.overflow_checks THEN result.err = AddOverflow
        ELSE IF prev.remaining[1].page_sequence_number = 0 THEN result.ok
        ELSE Failed("next_packets", "InvalidOggStream",
                    "page sequence numbers are not sequential for data")

(* No build aborts anywhere else, and the build without overflow checks    *)
(* nowhere.                                                                *)
OverflowOnlyAtMax ==
    Overflowed =>
        /\ call.overflow_checks
        /\ call.op \in {"Page::skip", "Packets::parse"} =>
               \E i \in 1..(Len(bitstream) - 1) :
                   /\ bitstream[i].page_sequence_number = U32Max
                   /\ LastPacketContinues(bitstream[i])
        /\ result.op = "next_packets" =>
               \/ prev.marker.page_sequence_number = U32Max
               \/ \E i \in 1..(Len(prev.remaining) - 1) :
                      /\ prev.remaining[i].page_sequence_number = U32Max
                      /\ LastPacketContinues(prev.remaining[i])

(* read_header returned a reader whose last sequence number is 2^32 - 1,   *)
(* the data page behind the comment page is numbered 0, and next_packets   *)
(* on it ended in an overflow.                                             *)
OverflowInNextPackets ==
    /\ result.op = "next_packets" /\ result.err = AddOverflow
    /\ Len(bitstream) >= 3
    /\ bitstream[2].page_sequence_number = U32Max
    /\ bitstream[3].page_sequence_number = 0

---------------------------------------------------------------------------
(* The container layer, continued.                                         *)

(* The call ended in a failed unwrap or a failed assertion.                *)
Aborted == ~call.ok /\ call.err.kind = "Panic"

(* C35: for every input, Page::skip and Packets::parse, and with them      *)
(* read_header and next_packets, which hand their input to these two,      *)
(* return a success value or an error value; no input, a page with a       *)
(* segment count of 0 included, makes them abort through a failed unwrap   *)
(* or assertion.                                                           *)
C35_NoAbort == WalkCall => ~Aborted

(* Both functions abort exactly when the first page of the input has no    *)
(* segment.                                                                *)
AbortIffNoSegment ==
    WalkCall =>
        (Aborted <=> bitstream # <<>> /\ bitstream[1].version = 0
                                      /\ bitstream[1].segment_table = <<>>)

(* A call of Packets::next is the step.                                    *)
NextCalled == call'.op = "Packets::next" /\ call' # call

(* What a Packets value has yet to visit: the pages of its bounded view    *)
(* and, for equal views, the lace values left in its segment iterator.     *)
LessToVisit(after, before) ==
    \/ Len(after.data) < Len(before.data)
    \/ /\ Len(after.data) = Len(before.data)
       /\ Len(after.segments.table) < Len(before.segments.table)

(* C37: Packets::next is fused and always terminates.  Every call returns, *)
(* with a packet or with None; a call that returns a packet leaves         *)
(* strictly less to visit, pages of the bounded view first and segments of *)
(* the current page second; and once a call has returned None, the next    *)
(* call on the same value returns None as well and leaves the current page *)
(* and the bounded view, the segment iterator included, as they were.      *)
C37_Fused ==
    /\ [][NextCalled =>
            /\ call'.kind \in {"Some", "None"}
            /\ call'.kind = "Some" => LessToVisit(packets', packets)
            /\ call'.kind = "None" => packets' = packets]_vars
    /\ [][NextCalled /\ call.op = "Packets::next" /\ call.kind = "None" =>
            /\ call'.kind = "None"
            /\ packets'.page = packets.page
            /\ packets'.data = packets.data
            /\ packets' = packets
            /\ delivered' = delivered]_vars
    /\ [](call.op = "Packets::next" /\ call.kind = "None" =>
            PacketsNext(packets) = NextNone(packets))

(* next was called on a value that had returned None behind the packets of *)
(* two pages, and returned None again.                                     *)
C37_Witness ==
    /\ call.op = "Packets::next" /\ call.kind = "None" /\ call.after_none
    /\ Len(delivered) >= 2
    /\ GroupLen(bitstream) >= 2

---------------------------------------------------------------------------
(* The Opus layer, continued.                                              *)

(* A table the parser accepted: the one ChannelMappingTable::parse         *)
(* returned, or the one in the header OpusHeader::parse returned.          *)
TableAccepted ==
    \/ call.op = "ChannelMappingTable::parse" /\ call.ok
    \/ HeaderReturned /\ call.opus.family # "Family0"

AcceptedTable ==
    IF call.op = "ChannelMappingTable::parse" THEN call.table
    ELSE call.opus.table

(* C38: for every channel-mapping table the parser accepted, the 8-bit     *)
(* computations of get_mapping stay within 0..255 (twice the coupled count *)
(* is at most 254, and an index that is not below it is not below the      *)
(* coupled count), and every stream index is below the stream count: half  *)
(* the index is below the coupled count for a stereo stream, the index     *)
(* less the coupled count below the stream count for a mono stream.  No    *)
(* call of get_mapping aborts, and the stream it returns obeys the same    *)
(* bounds.                                                                 *)
C38_MappingArithmetic ==
    TableAccepted =>
        LET t == AcceptedTable
        IN  /\ 2 * t.coupled_count <= 254
            /\ t.coupled_count <= t.stream_count
            /\ \A i \in 1..Len(t.mapping) :
                   t.mapping[i] # 255 =>
                       IF t.mapping[i] < 2 * t.coupled_count
                       THEN t.mapping[i] \div 2 < t.coupled_count
                       ELSE /\ t.mapping[i] - t.coupled_count >= 0
                            /\ t.mapping[i] - t.coupled_count < t.stream_count
            /\ call.op = "get_mapping" =>
                   /\ call.mapping.kind # "Panic"
                   /\ call.mapping.stream.some =>
                          /\ call.mapping.stream.index >= 0
                          /\ call.mapping.stream.index < t.stream_count
                          /\ call.mapping.stream.channel # "Mono" =>
                                 call.mapping.stream.index < t.coupled_count

(* get_mapping returned the last mono stream of a table of 128 streams,    *)
(* 127 of them coupled, for the index 254.                                 *)
C38_Witness ==
    /\ HeaderReturned /\ call.op = "get_mapping"
    /\ call.opus.table.stream_count = 128
    /\ call.opus.table.coupled_count = 127
    /\ call.channel < Len(call.opus.table.mapping)
    /\ TableEntry(call.opus, call.channel) = 254
    /\ call.mapping.stream = [some |-> TRUE, index |-> 127, channel |-> "Mono"]

====
